---------------------------- MODULE Spec2Model ----------------------------
(***************************************************************************)
(* A model of monome-deno: the OSC codec, the UDP receiver and its         *)
(* listener table, the serialosc discovery client and the per-device       *)
(* handshake of Device / Grid / Arc.                                       *)
(*                                                                         *)
(* Conventions.  A JavaScript string is the sequence of its UTF-8 bytes    *)
(* (only ASCII is used, on which TextEncoder and TextDecoder are inverse   *)
(* byte-for-byte).  A JavaScript value handed to a handler or to the       *)
(* encoder is a tagged record: Num(n) for a whole number, Str(s) for a     *)
(* string, F32(bits) for a number that is not whole (identified by the     *)
(* four bytes of its float32 form) and Undef for undefined.  A byte buffer *)
(* is a sequence over 0..255; an offset into it is 0-based as in the code. *)
(***************************************************************************)
EXTENDS Integers, Sequences, FiniteSets, TLC

VARIABLES
    rcv,    \* the OscReceiver under study: isListening, socket, listeners, receive loops
    dev,    \* the Device (Grid or Arc) session that owns rcv in SpecDevice
    so,     \* the SerialOSC client that owns rcv in SpecSerial
    hist,   \* what the environment observed: handler calls, events raised, datagrams sent
    cdc,    \* the last call of OscEncoder.encode / OscDecoder.decode in SpecCodec
    net,    \* "up" or "down": whether the socket calls of OscSender.send succeed
    snd,    \* the OscSender under study in SpecSender: its socket and its send() calls
    names   \* the last call of OscReceiver.eventNames() in SpecEventNames

vars == <<rcv, dev, so, hist, cdc, net, snd, names>>

-----------------------------------------------------------------------------
(* String literals of the source, as UTF-8 byte sequences.                 *)

S_message == <<109, 101, 115, 115, 97, 103, 101>>  \* "message"
S_sys_id == <<47, 115, 121, 115, 47, 105, 100>>  \* "/sys/id"
S_sys_size == <<47, 115, 121, 115, 47, 115, 105, 122, 101>>  \* "/sys/size"
S_sys_rotation == <<47, 115, 121, 115, 47, 114, 111, 116, 97, 116, 105, 111, 110>>  \* "/sys/rotation"
S_sys_connect == <<47, 115, 121, 115, 47, 99, 111, 110, 110, 101, 99, 116>>  \* "/sys/connect"
S_sys_disconnect == <<47, 115, 121, 115, 47, 100, 105, 115, 99, 111, 110, 110, 101, 99, 116>>  \* "/sys/disconnect"
S_sys_port == <<47, 115, 121, 115, 47, 112, 111, 114, 116>>  \* "/sys/port"
S_sys_host == <<47, 115, 121, 115, 47, 104, 111, 115, 116>>  \* "/sys/host"
S_sys_prefix == <<47, 115, 121, 115, 47, 112, 114, 101, 102, 105, 120>>  \* "/sys/prefix"
S_sys_info == <<47, 115, 121, 115, 47, 105, 110, 102, 111>>  \* "/sys/info"
S_grid_key == <<47, 103, 114, 105, 100, 47, 107, 101, 121>>  \* "/grid/key"
S_tilt == <<47, 116, 105, 108, 116>>  \* "/tilt"
S_enc_key == <<47, 101, 110, 99, 47, 107, 101, 121>>  \* "/enc/key"
S_enc_delta == <<47, 101, 110, 99, 47, 100, 101, 108, 116, 97>>  \* "/enc/delta"
S_serialosc_device == <<47, 115, 101, 114, 105, 97, 108, 111, 115, 99, 47, 100, 101, 118, 105, 99, 101>>  \* "/serialosc/device"
S_serialosc_add == <<47, 115, 101, 114, 105, 97, 108, 111, 115, 99, 47, 97, 100, 100>>  \* "/serialosc/add"
S_serialosc_remove == <<47, 115, 101, 114, 105, 97, 108, 111, 115, 99, 47, 114, 101, 109, 111, 118, 101>>  \* "/serialosc/remove"
S_serialosc_notify == <<47, 115, 101, 114, 105, 97, 108, 111, 115, 99, 47, 110, 111, 116, 105, 102, 121>>  \* "/serialosc/notify"
S_serialosc_list == <<47, 115, 101, 114, 105, 97, 108, 111, 115, 99, 47, 108, 105, 115, 116>>  \* "/serialosc/list"
S_monome == <<47, 109, 111, 110, 111, 109, 101>>  \* "/monome"
S_localhost == <<108, 111, 99, 97, 108, 104, 111, 115, 116>>  \* "localhost"
S_loopback == <<49, 50, 55, 46, 48, 46, 48, 46, 49>>  \* "127.0.0.1"

-----------------------------------------------------------------------------
(* JavaScript values.                                                      *)

Num(n) == [t |-> "number", v |-> n]
Str(s) == [t |-> "string", v |-> s]
F32(bits) == [t |-> "float", v |-> bits]
Undef == [t |-> "undefined", v |-> 0]

\* args[i] of a JavaScript call: a missing positional argument is undefined.
Arg(args, i) == IF i <= Len(args) THEN args[i] ELSE Undef

-----------------------------------------------------------------------------
(* OscEncoder.                                                             *)

\* The padded size without the byte of the null terminator.
alignedStringSize_NoTerminator(str) == ((Len(str) + 3) \div 4) * 4

\* Math.ceil((bytes.length + 1) / 4) * 4
alignedStringSize(str) == ((Len(str) + 1 + 3) \div 4) * 4

\* The type tag encode() appends for one argument ("" for a skipped one).
TagOf(arg) ==
    CASE arg.t = "number" -> <<105>>      \* "i"
      [] arg.t = "float"  -> <<102>>      \* "f"
      [] arg.t = "string" -> <<115>>      \* "s"
      [] OTHER            -> <<>>

RECURSIVE TypeTagsOf(_)
TypeTagsOf(args) ==
    IF args = <<>> THEN <<>> ELSE TagOf(Head(args)) \o TypeTagsOf(Tail(args))

RECURSIVE ArgsSize(_)
ArgsSize(args) ==
    IF args = <<>> THEN 0
    ELSE (CASE Head(args).t = "string" -> alignedStringSize(Head(args).v)
            [] Head(args).t \in {"number", "float"} -> 4
            [] OTHER -> 0) + ArgsSize(Tail(args))

\* A write cursor: the buffer, the offset, and whether a write threw.
\* buffer.set(bytes, offset) throws a RangeError when the bytes do not fit.
SetBytes(w, bytes) ==
    IF w.err \/ w.offset + Len(bytes) > Len(w.buffer)
    THEN [w EXCEPT !.err = TRUE]
    ELSE [w EXCEPT !.buffer = [i \in 1..Len(w.buffer) |->
                        IF i > w.offset /\ i <= w.offset + Len(bytes)
                        THEN bytes[i - w.offset] ELSE w.buffer[i]]]

\* buffer[i] = 0 is ignored by a typed array when i is out of range.
SetByte(w, i, b) ==
    IF w.err \/ i >= Len(w.buffer) THEN w
    ELSE [w EXCEPT !.buffer[i + 1] = b]

writeString(w, str) ==
    LET w1 == SetBytes(w, str)
        w2 == SetByte(w1, w.offset + Len(str), 0)
    IN  [w2 EXCEPT !.offset = w.offset + alignedStringSize(str)]

\* The big-endian two's-complement bytes of a 32-bit integer.
Int32Bytes(v) ==
    << (v \div 16777216) % 256, (v \div 65536) % 256, (v \div 256) % 256, v % 256 >>

\* DataView.setInt32 / setFloat32 throw a RangeError past the end of the buffer.
writeInt32(w, value) ==
    LET w1 == SetBytes(w, Int32Bytes(value))
    IN  [w1 EXCEPT !.offset = w.offset + 4]

writeFloat32(w, bits) ==
    LET w1 == SetBytes(w, bits)
    IN  [w1 EXCEPT !.offset = w.offset + 4]

RECURSIVE WriteArgs(_, _)
WriteArgs(w, args) ==
    IF args = <<>> THEN w
    ELSE LET a == Head(args)
             w1 == CASE a.t = "number" -> writeInt32(w, a.v)
                     [] a.t = "float"  -> writeFloat32(w, a.v)
                     [] a.t = "string" -> writeString(w, a.v)
                     [] OTHER          -> w
         IN  WriteArgs(w1, Tail(args))

\* OscEncoder.encode: the final write cursor (buffer, offset, err).
EncodeCursor(address, args) ==
    LET typeTags == <<44>> \o TypeTagsOf(args)
        size == alignedStringSize(address) + alignedStringSize(typeTags) + ArgsSize(args)
        w0 == [buffer |-> [i \in 1..size |-> 0], offset |-> 0, err |-> FALSE]
    IN  WriteArgs(writeString(writeString(w0, address), typeTags), args)

encode(address, args) == EncodeCursor(address, args).buffer

-----------------------------------------------------------------------------
(* OscDecoder.                                                             *)

\* data.subarray(from, to) with 0-based bounds, clamped to the buffer.
Subarray(data, from, to) ==
    LET f == IF from > Len(data) THEN Len(data) ELSE from
        t == IF to > Len(data) THEN Len(data) ELSE to
    IN  IF t <= f THEN <<>> ELSE SubSeq(data, f + 1, t)

RECURSIVE FindNull(_, _)
FindNull(data, end) ==
    IF end < Len(data) /\ data[end + 1] # 0 THEN FindNull(data, end + 1) ELSE end

readString(data, offset) ==
    LET end == FindNull(data, offset)
        paddedSize == ((end - offset + 1 + 3) \div 4) * 4
    IN  [err |-> FALSE, value |-> Subarray(data, offset, end), newOffset |-> offset + paddedSize]

\* DataView.getInt32 throws a RangeError when fewer than 4 bytes are left.
readInt32(data, offset) ==
    IF offset + 4 > Len(data)
    THEN [err |-> TRUE, value |-> 0, newOffset |-> offset]
    ELSE LET b3 == data[offset + 1]
             hi == IF b3 >= 128 THEN b3 - 256 ELSE b3
         IN  [err |-> FALSE,
              value |-> hi * 16777216 + data[offset + 2] * 65536
                        + data[offset + 3] * 256 + data[offset + 4],
              newOffset |-> offset + 4]

\* The whole-number value of a float32 given by its bytes, for the values the
\* model uses (zero and the normal numbers 1 <= |x| < 2^24); Undef otherwise.
F32Whole(bits) ==
    LET sign == bits[1] \div 128
        e    == (bits[1] % 128) * 2 + bits[2] \div 128
        m    == (bits[2] % 128) * 65536 + bits[3] * 256 + bits[4]
        sh   == 150 - e
        pow  == [k \in 0..23 |-> IF k = 0 THEN 1 ELSE 2 ^ k]
        sig  == 8388608 + m
    IN  IF e = 0 /\ m = 0 THEN Num(0)
        ELSE IF e >= 127 /\ e <= 150 /\ sig % pow[sh] = 0
             THEN Num((IF sign = 1 THEN -1 ELSE 1) * (sig \div pow[sh]))
             ELSE Undef

\* DataView.getFloat32: a JavaScript number; a whole one is the same value as
\* the integer (2.0 is 2), any other is identified by its float32 bytes.
readFloat32(data, offset) ==
    IF offset + 4 > Len(data)
    THEN [err |-> TRUE, value |-> Undef, newOffset |-> offset]
    ELSE LET bits == SubSeq(data, offset + 1, offset + 4)
             whole == F32Whole(bits)
         IN  [err |-> FALSE,
              value |-> IF whole.t = "number" THEN whole ELSE F32(bits),
              newOffset |-> offset + 4]

\* The loop over typeTags[i], i = 1 .. length-1 (0-based), of decode().
RECURSIVE DecodeArgs(_, _, _, _, _)
DecodeArgs(data, typeTags, i, offset, args) ==
    IF i >= Len(typeTags) THEN [err |-> FALSE, args |-> args]
    ELSE LET tag == typeTags[i + 1] IN
         CASE tag = 105 ->
                LET r == readInt32(data, offset) IN
                IF r.err THEN [err |-> TRUE, args |-> args]
                ELSE DecodeArgs(data, typeTags, i + 1, r.newOffset, Append(args, Num(r.value)))
           [] tag = 102 ->
                LET r == readFloat32(data, offset) IN
                IF r.err THEN [err |-> TRUE, args |-> args]
                ELSE DecodeArgs(data, typeTags, i + 1, r.newOffset, Append(args, r.value))
           [] tag = 115 ->
                LET r == readString(data, offset) IN
                DecodeArgs(data, typeTags, i + 1, r.newOffset, Append(args, Str(r.value)))
           [] OTHER -> DecodeArgs(data, typeTags, i + 1, offset, args)

\* decode without the test for the ',' that begins the type tags.
decode_NoTagCheck(data) ==
    LET a == readString(data, 0)
        t == readString(data, a.newOffset)
        r == DecodeArgs(data, t.value, 1, t.newOffset, <<>>)
    IN  [err |-> r.err, address |-> a.value, args |-> r.args]

\* OscDecoder.decode: err is TRUE when it throws (a RangeError of the DataView).
decode(data) ==
    LET a == readString(data, 0)
        offset == a.newOffset
    IN  IF offset >= Len(data) \/ data[offset + 1] # 44
        THEN [err |-> FALSE, address |-> a.value, args |-> <<>>]
        ELSE LET t == readString(data, offset)
                 r == DecodeArgs(data, t.value, 1, t.newOffset, <<>>)
             IN  [err |-> r.err, address |-> a.value, args |-> r.args]

-----------------------------------------------------------------------------
(* OscReceiver: one record per receiver object.                            *)
(*   socket     0 for null, otherwise the number of the bound socket       *)
(*   nsock      how many sockets this receiver has bound so far            *)
(*   listeners  the EventEmitter's table: event name -> handlers in        *)
(*              registration order                                         *)
(*   loops      the startReceiving() tasks that have not returned: each    *)
(*              awaits socket.receive() on socket sock ("awaiting"), or    *)
(*              its receive has resolved with data and its continuation    *)
(*              has not run yet ("ready")                                  *)
(* A handler is a record [fn, id]: fn names the closure, id tells two      *)
(* registrations of the environment apart.                                 *)

\* The host taken for the transport without conversion.
ListenHost_Unresolved(host) == host

\* host === "localhost" ? "127.0.0.1" : host, the conversion the library
\* applies wherever a host reaches the transport: in the constructors of
\* OscReceiver and OscSender, in OscSender.send, in SerialOSC.start and
\* startOSCReceiver and its handlers, and in Device.config.
ListenHost(host) == IF host = S_localhost THEN S_loopback ELSE host

\* new OscSender(hostname, port): its fields.
NewOscSender(hostname, port) == [hostname |-> ListenHost(hostname), port |-> port]

\* The socket side of an OscSender after construction:
\*   socket  this.socket, 0 for null
\*   nsock   how many sockets Deno.listenDatagram has bound for it
\*   open    the bound sockets that have not been closed
\*   calls   the send() calls that have not returned: each is suspended in
\*           `this.socket = await Deno.listenDatagram(...)` holding the
\*           socket just bound ("bind"), or in `await this.socket.send(...)`
\*           on a socket ("send")
\*   started how many send() calls have been made
\*   via     the socket the last datagram left through, 0 when none has
NoSender == [socket |-> 0, nsock |-> 0, open |-> {}, calls |-> << >>,
             started |-> 0, via |-> 0]

\* The host OscSender.send hands to socket.send: targetHost.
TargetHost(sender) == ListenHost(sender.hostname)

NewOscReceiver(port, hostname) ==
    [port |-> port,
     hostname |-> ListenHost(hostname),
     isListening |-> FALSE, socket |-> 0, nsock |-> 0,
     listeners |-> << >>, loops |-> << >>]

\* The handlers registered for an event name, in registration order.
Listeners(R, ev) == IF ev \in DOMAIN R.listeners THEN R.listeners[ev] ELSE << >>

HasListeners(R) == \E ev \in DOMAIN R.listeners : R.listeners[ev] # << >>

\* EventEmitter.on(eventName, listener): append to the event's list.
R_on(R, ev, fn, id) ==
    LET h == [fn |-> fn, id |-> id]
    IN  [R EXCEPT !.listeners =
            [e \in DOMAIN R.listeners \cup {ev} |->
                IF e = ev THEN Append(Listeners(R, ev), h) ELSE R.listeners[e]]]

\* OscReceiver.removeListener(address): logs, and changes nothing.
R_removeListener(R, address) == R

\* OscReceiver.removeAllListeners(address?): logs, and changes nothing
\* (all is TRUE for the call without an argument).
R_removeAllListeners(R, all, address) == R

\* No call of eventNames() yet.  A call ends with out = "list" and the list
\* it returned, or with out = "RangeError" when the call stack is exhausted.
NoNames == [out |-> "none", list |-> << >>]

\* The frames the call stack holds before the engine throws RangeError
\* (Maximum call stack size exceeded).
MaxStackDepth == 3

\* typeof (this as any).eventNames === 'function': the property lookup on
\* an OscReceiver finds the method eventNames of OscReceiver itself.
HasEventNames(R) == TRUE

\* OscReceiver.eventNames() in the frame at the given depth of the stack.
RECURSIVE eventNames(_, _)
eventNames(R, depth) ==
    IF depth > MaxStackDepth THEN [out |-> "RangeError", list |-> << >>]
    ELSE IF HasEventNames(R) THEN eventNames(R, depth + 1)
    ELSE [out |-> "list", list |-> << >>]

\* OscReceiver.startReceiving(): runs up to its first await of receive().
R_startReceiving(R) ==
    IF R.socket = 0 \/ ~R.isListening THEN R
    ELSE [R EXCEPT !.loops = Append(@, [sock |-> R.socket, st |-> "awaiting", data |-> << >>])]

\* OscReceiver.listen(): binds a socket and starts the receive loop.
R_listen(R) ==
    IF R.isListening THEN R
    ELSE R_startReceiving([R EXCEPT !.socket = R.nsock + 1, !.nsock = R.nsock + 1,
                                    !.isListening = TRUE])

\* The loops left when socket s is closed: a receive() pending on it rejects,
\* and that loop returns through its catch; a loop whose receive has already
\* resolved keeps its datagram.
SelectLoops(loops, s) == SelectSeq(loops, LAMBDA l : ~(l.sock = s /\ l.st = "awaiting"))

\* OscReceiver.close()
R_close(R) ==
    LET R1 == [R EXCEPT !.isListening = FALSE]
        R2 == IF R.socket # 0
              THEN [R1 EXCEPT !.loops = SelectLoops(R.loops, R.socket), !.socket = 0]
              ELSE R1
    IN  R_removeAllListeners(R2, TRUE, << >>)

-----------------------------------------------------------------------------
(* The world a handler runs in: w = [rcv, dev, so, hist].  rcv is the      *)
(* sequence of the OscReceiver objects created so far; dev.oscReceiver and *)
(* so.receiver are indexes into it (0 for null).                           *)
(*                                                                         *)
(* hist is what an observer of the process sees:                           *)
(*   seq     datagrams the network has delivered so far                    *)
(*   count   how often each event of Counted has been raised so far, per   *)
(*           <<name, argument>>                                            *)
(*   last    the last iteration of a receive loop: the receiver, whether   *)
(*           decode returned, and the decoded message                      *)
(*   first   the first message sent to the device                          *)
(*   acked   which of /sys/port and /sys/host a receive loop has decoded   *)
(*           and dispatched so far                                         *)
(*   infoSent  how many /sys/info messages have been sent so far           *)
(* and of the last program step (an API call, a loop iteration or the      *)
(* continuation of a suspended handler):                                   *)
(*   calls   the calls of environment handlers it made, in order           *)
(*   invoked how many registered handlers it invoked                       *)
(*   events  the events it raised, in order                                *)
(*   sent    the send() calls it made that succeeded, in order             *)
(*   off     the <<receiver, address>> it called removeListener() for and  *)
(*           did not register a handler for afterwards                     *)
(*   cleared the receivers it called removeAllListeners() for, without     *)
(*           argument, and did not register a handler on afterwards        *)
(*   rejected  what became of a send() that failed in it: "none" when no   *)
(*           send failed, "send" while the error travels up the awaiting   *)
(*           functions, "caller" when it rejected the promise of an API    *)
(*           call, "unhandled" when it rejected a promise nobody holds     *)

Counted == {"initialized", "device:add", "device:remove"}

NoLast == [r |-> 0, ok |-> FALSE, address |-> << >>, args |-> << >>]

HistInit == [seq |-> 0, count |-> << >>, last |-> NoLast, first |-> << >>,
             acked |-> {}, infoSent |-> 0,
             calls |-> << >>, invoked |-> 0, events |-> << >>, sent |-> << >>,
             off |-> {}, cleared |-> {}, rejected |-> "none"]

\* A new step begins: the per-step observations start empty.
BeginStep(h) ==
    [h EXCEPT !.calls = << >>, !.invoked = 0, !.events = << >>, !.sent = << >>,
              !.off = {}, !.cleared = {}, !.rejected = "none"]

CountOf(count, k) == IF k \in DOMAIN count THEN count[k] ELSE 0

Bump(count, k) ==
    IF k[1] \notin Counted THEN count
    ELSE [x \in DOMAIN count \cup {k} |-> IF x = k THEN CountOf(count, k) + 1 ELSE count[x]]

\* EventEmitter.emit on a Device or on the SerialOSC client: its listeners are
\* the application's, outside the library; the event is observed.
Raise(w, src, name, arg) ==
    [w EXCEPT !.hist.events = Append(@, [src |-> src, name |-> name, arg |-> arg]),
              !.hist.count = Bump(@, <<name, arg>>)]

\* Whether the receiver that the answers of the target arrive on is bound
\* and listening (for the daemon: with the three /serialosc handlers
\* registered) in world w.
ReceiverReady(w, to) ==
    LET r == IF to = "daemon" THEN w.so.receiver ELSE w.dev.oscReceiver
    IN  /\ r # 0
        /\ w.rcv[r].isListening /\ w.rcv[r].socket # 0
        /\ to = "daemon" =>
              \A a \in {S_serialosc_device, S_serialosc_add, S_serialosc_remove} :
                  Listeners(w.rcv[r], a) # << >>

\* The OscSender of the Device session ("device") or of the SerialOSC
\* client ("daemon").
SenderOf(w, to) == IF to = "daemon" THEN w.so.serialoscSender[1] ELSE w.dev.oscSender

\* OscSender.send(address, args) as its caller sees it: the message handed
\* to the sender for the target "device" or "daemon", the host the datagram
\* is sent to, and whether the receiver was ready when it was sent.  When listenDatagram or socket.send
\* throws, the catch block throws a new Error: the promise of send() rejects
\* and no datagram leaves.
Send(w, to, address, args) ==
    LET m == [to |-> to, address |-> address, args |-> args,
              host |-> TargetHost(SenderOf(w, to)),
              ready |-> ReceiverReady(w, to)]
    IN  IF w.net = "down" THEN [w EXCEPT !.hist.rejected = "send"]
        ELSE [w EXCEPT !.hist.sent = Append(@, m),
                       !.hist.infoSent = IF to = "device" /\ address = S_sys_info THEN @ + 1 ELSE @,
                       !.hist.first = IF to = "device" /\ @ = << >> THEN <<m>> ELSE @]

\* Whether a send() awaited in this step has thrown.
Threw(w) == w.hist.rejected = "send"

\* The end of an async function whose promise the caller of the API holds
\* (`await grid.start()`): an error thrown in it rejects that promise.
ToCaller(w) == IF Threw(w) THEN [w EXCEPT !.hist.rejected = "caller"] ELSE w

\* The end of an async function called without await or catch (a handler
\* invoked by emit, receiveInitMsg called by a handler): an error thrown in
\* it rejects a promise that nobody holds.
Dropped(w) == IF Threw(w) THEN [w EXCEPT !.hist.rejected = "unhandled"] ELSE w

\* oscReceiver?.on(...) / removeListener(...) on receiver r of the world.
On(w, r, ev, fn, id) ==
    IF r = 0 THEN w
    ELSE [w EXCEPT !.rcv[r] = R_on(@, ev, fn, id), !.hist.off = @ \ {<<r, ev>>},
                   !.hist.cleared = @ \ {r}]

RemoveListener(w, r, address) ==
    IF r = 0 THEN w
    ELSE [w EXCEPT !.rcv[r] = R_removeListener(@, address),
                   !.hist.off = @ \cup {<<r, address>>}]

\* receiver.removeAllListeners(address?) and receiver.close() on receiver r.
RemoveAllListeners(w, r, all, address) ==
    [w EXCEPT !.rcv[r] = R_removeAllListeners(@, all, address),
              !.hist.cleared = IF all THEN @ \cup {r} ELSE @]

CloseReceiver(w, r) ==
    IF r = 0 THEN w
    ELSE [w EXCEPT !.rcv[r] = R_close(@), !.hist.cleared = @ \cup {r}]

-----------------------------------------------------------------------------
(* Device, Grid, Arc.                                                      *)
(*   type         "grid" or "arc": the class of the session                *)
(*   initMsgs, sentSysInfo   the closure variables of start()              *)
(*   tasks        receiveInitMsg calls suspended in `await send(/sys/host)`*)
(*   started      start() has run                                          *)

\* A template literal `${v}...`: the string itself, or "undefined".
TemplateStr(v) ==
    CASE v.t = "string"    -> v.v
      [] v.t = "undefined" -> <<117, 110, 100, 101, 102, 105, 110, 101, 100>>

\* Array.prototype.includes / indexOf + splice(index, 1)
Includes(seq, x) == \E i \in 1..Len(seq) : seq[i] = x

RemoveFirst(seq, x) ==
    IF ~Includes(seq, x) THEN seq
    ELSE LET i == CHOOSE k \in 1..Len(seq) : seq[k] = x /\ \A j \in 1..(k - 1) : seq[j] # x
         IN  SubSeq(seq, 1, i - 1) \o SubSeq(seq, i + 1, Len(seq))

\* The initMsgs array of Device.start().
InitMsgs == <<S_sys_host, S_sys_port, S_sys_prefix, S_sys_rotation, S_sys_size>>

\* Grid.removeListeners / Arc.removeListeners (the base class does nothing).
removeListeners(w) ==
    LET r == w.dev.oscReceiver
        p == TemplateStr(w.dev.prefix)
    IN  CASE w.dev.type = "grid" ->
               RemoveListener(RemoveListener(w, r, p \o S_grid_key), r, p \o S_tilt)
          [] w.dev.type = "arc" ->
               RemoveListener(RemoveListener(w, r, p \o S_enc_key), r, p \o S_enc_delta)
          [] OTHER -> w

\* addListeners subscribing under the prefix of the class, "/monome",
\* whatever the current prefix.
addListeners_DefaultPrefix(w) ==
    LET r == w.dev.oscReceiver
        p == S_monome
    IN  CASE w.dev.type = "grid" ->
               On(On(w, r, p \o S_grid_key, "grid_key", 0), r, p \o S_tilt, "grid_tilt", 0)
          [] w.dev.type = "arc" ->
               On(On(w, r, p \o S_enc_key, "enc_key", 0), r, p \o S_enc_delta, "enc_delta", 0)
          [] OTHER -> w

\* Grid.addListeners / Arc.addListeners
addListeners(w) ==
    LET r == w.dev.oscReceiver
        p == TemplateStr(w.dev.prefix)
    IN  CASE w.dev.type = "grid" ->
               On(On(w, r, p \o S_grid_key, "grid_key", 0), r, p \o S_tilt, "grid_tilt", 0)
          [] w.dev.type = "arc" ->
               On(On(w, r, p \o S_enc_key, "enc_key", 0), r, p \o S_enc_delta, "enc_delta", 0)
          [] OTHER -> w

\* The tail of receiveInitMsg: `if (!sentSysInfo && ...) { ...send("/sys/info") }`
InitMsgInfoStep(w) ==
    IF ~w.dev.sentSysInfo /\ ~Includes(w.dev.initMsgs, S_sys_port)
                          /\ ~Includes(w.dev.initMsgs, S_sys_host)
    THEN Send([w EXCEPT !.dev.sentSysInfo = TRUE], "device", S_sys_info, << >>)
    ELSE w

\* receiveInitMsg with `this.connected = true` forgotten.
receiveInitMsg_NoConnected(w, msg) ==
    IF w.dev.connected THEN w
    ELSE LET w1 == [w EXCEPT !.dev.initMsgs = RemoveFirst(@, msg)]
             w2 == IF Len(w1.dev.initMsgs) = 0
                   THEN Raise(w1, "device", "initialized", << >>)
                   ELSE w1
         IN  IF ~Includes(w2.dev.initMsgs, S_sys_port) /\ Includes(w2.dev.initMsgs, S_sys_host)
             THEN LET w3 == Send(w2, "device", S_sys_host, <<w2.dev.host>>)
                  IN  IF Threw(w3) THEN w3 ELSE [w3 EXCEPT !.dev.tasks = @ + 1]
             ELSE InitMsgInfoStep(w2)

\* receiveInitMsg(msg), up to its first suspension: when it sends /sys/host
\* it awaits the send, and its tail runs when that send has completed; it
\* does not run when the send threw.
receiveInitMsg(w, msg) ==
    IF w.dev.connected THEN w
    ELSE LET w1 == [w EXCEPT !.dev.initMsgs = RemoveFirst(@, msg)]
             w2 == IF Len(w1.dev.initMsgs) = 0
                   THEN Raise([w1 EXCEPT !.dev.connected = TRUE], "device", "initialized", << >>)
                   ELSE w1
         IN  IF ~Includes(w2.dev.initMsgs, S_sys_port) /\ Includes(w2.dev.initMsgs, S_sys_host)
             THEN LET w3 == Send(w2, "device", S_sys_host, <<w2.dev.host>>)
                  IN  IF Threw(w3) THEN w3 ELSE [w3 EXCEPT !.dev.tasks = @ + 1]
             ELSE InitMsgInfoStep(w2)

\* The handlers Device.start() registers on its receiver.
OnSysId(w, args) == [w EXCEPT !.dev.id = Arg(args, 1)]

OnSysSize(w, args) ==
    receiveInitMsg([w EXCEPT !.dev.sizeX = Arg(args, 1), !.dev.sizeY = Arg(args, 2)], S_sys_size)

OnSysRotation(w, args) ==
    receiveInitMsg([w EXCEPT !.dev.rotation = Arg(args, 1)], S_sys_rotation)

\* The /sys/connect handler taken for a completed handshake.
OnSysConnect_CompletesHandshake(w, args) ==
    Raise([w EXCEPT !.dev.connected = TRUE, !.dev.initMsgs = << >>],
          "device", "connected", << >>)

OnSysConnect(w, args) ==
    Raise([w EXCEPT !.dev.connected = TRUE], "device", "connected", << >>)

OnSysDisconnect(w, args) ==
    Raise([w EXCEPT !.dev.connected = FALSE], "device", "disconnected", << >>)

OnSysPort(w, args) == receiveInitMsg([w EXCEPT !.dev.port = Arg(args, 1)], S_sys_port)

OnSysHost(w, args) == receiveInitMsg([w EXCEPT !.dev.host = Arg(args, 1)], S_sys_host)

\* The /sys/prefix handler that resubscribes and does not count as a step
\* of the handshake.
OnSysPrefix_NotAStep(w, args) ==
    LET w1 == removeListeners(w)
        w2 == [w1 EXCEPT !.dev.prefix = Arg(args, 1)]
    IN  addListeners(w2)

OnSysPrefix(w, args) ==
    LET w1 == removeListeners(w)
        w2 == [w1 EXCEPT !.dev.prefix = Arg(args, 1)]
    IN  receiveInitMsg(addListeners(w2), S_sys_prefix)

\* The handlers addListeners() registers: each raises one session event.
OnGridKey(w, args) == Raise(w, "device", "key", <<Arg(args, 1), Arg(args, 2), Arg(args, 3)>>)
OnGridTilt(w, args) ==
    Raise(w, "device", "tilt", <<Arg(args, 1), Arg(args, 2), Arg(args, 3), Arg(args, 4)>>)
OnEncKey(w, args) == Raise(w, "device", "key", <<Arg(args, 1), Arg(args, 2)>>)
OnEncDelta(w, args) == Raise(w, "device", "delta", <<Arg(args, 1), Arg(args, 2)>>)

-----------------------------------------------------------------------------
(* SerialOSC.                                                              *)
(*   receiver         index of its OscReceiver in rcv, 0 for null          *)
(*   serialoscSender  << >> for null, else <<[hostname, port]>>            *)
(*   devices          the DeviceInfo records pushed so far                 *)
(*   pc               "list" while start() is suspended between its two    *)
(*                    sends, otherwise "idle"                              *)
(*   tasks            /serialosc/add handlers suspended between their sends*)

S_monome_arc == <<109, 111, 110, 111, 109, 101, 32, 97, 114, 99>>  \* "monome arc"

IsDigit(b) == b >= 48 /\ b <= 57

\* The 0-based index of the first occurrence of pat in str, or -1.
IndexOf(str, pat) ==
    LET hits == {i \in 0..(Len(str) - Len(pat)) : SubSeq(str, i + 1, i + Len(pat)) = pat}
    IN  IF hits = {} THEN -1 ELSE CHOOSE i \in hits : \A j \in hits : i <= j

\* model.match(/monome arc ?(\d)?/): whether it matches, and group 1
\* (<< >> when the group did not take part).
EncoderMatch(model) ==
    LET at == IndexOf(model, S_monome_arc)
        p1 == at + Len(S_monome_arc)                              \* 0-based, after the literal
        p2 == IF p1 < Len(model) /\ model[p1 + 1] = 32 THEN p1 + 1 ELSE p1
        d  == IF p2 < Len(model) /\ IsDigit(model[p2 + 1]) THEN <<model[p2 + 1]>> ELSE << >>
    IN  IF at = -1 THEN [matched |-> FALSE, digit |-> << >>]
        ELSE [matched |-> TRUE, digit |-> d]

\* The classification with the captured digit ignored.
Classify_NoDigit(model) ==
    IF EncoderMatch(model).matched
    THEN [type |-> "arc", encoders |-> Num(4)]
    ELSE [type |-> "grid", encoders |-> Undef]

\* The type and encoders the /serialosc/device handler gives a new device.
Classify(model) ==
    LET m == EncoderMatch(model)
    IN  IF m.matched
        THEN [type |-> "arc",
              encoders |-> IF m.digit # << >> THEN Num(m.digit[1] - 48) ELSE Num(4)]
        ELSE [type |-> "grid", encoders |-> Undef]

\* find() comparing the id alone.
FindDevice_IdOnly(devices, id, devicePort) ==
    LET hits == {i \in 1..Len(devices) : devices[i].id = id}
    IN  IF hits = {} THEN 0 ELSE CHOOSE i \in hits : \A j \in hits : i <= j

\* this.devices.find(d => d.id === id && d.devicePort === devicePort): the
\* index of the first such device, 0 for undefined.
FindDevice(devices, id, devicePort) ==
    LET hits == {i \in 1..Len(devices) :
                    devices[i].id = id /\ devices[i].devicePort = devicePort}
    IN  IF hits = {} THEN 0 ELSE CHOOSE i \in hits : \A j \in hits : i <= j

SendDaemon(w, address) ==
    IF w.so.serialoscSender = << >> THEN w
    ELSE Send(w, "daemon", address, <<Str(ListenHost(w.so.host)), Num(w.so.port)>>)

\* The /serialosc/device handler.  A model that is not a string makes
\* model.match throw inside the async handler, which ends there.
OnSerialoscDevice(w, args) ==
    LET id == Arg(args, 1)
        model == Arg(args, 2)
        port == Arg(args, 3)
    IN  IF FindDevice(w.so.devices, id, port) # 0 THEN w
        ELSE IF model.t # "string" THEN w
        ELSE LET c == Classify(model.v)
                 deviceOpts == [id |-> id, model |-> model, host |-> w.so.host,
                                deviceHost |-> w.so.serialoscHost, devicePort |-> port,
                                type |-> c.type, encoders |-> c.encoders]
                 w1 == [w EXCEPT !.so.devices = Append(@, deviceOpts)]
             IN  Raise(Raise(w1, "serialosc", "id:add", <<id, port>>),
                       "serialosc", "device:add", <<id, port>>)

\* The /serialosc/add handler sending notify where it sends list.
OnSerialoscAdd_NotifyFirst(w, args) ==
    IF w.so.serialoscSender = << >> THEN w
    ELSE [SendDaemon(w, S_serialosc_notify) EXCEPT !.so.tasks = @ + 1]

\* The /serialosc/add handler up to its suspension in `await send(list)`.
OnSerialoscAdd(w, args) ==
    IF w.so.serialoscSender = << >> THEN w
    ELSE LET w1 == SendDaemon(w, S_serialosc_list)
         IN  IF Threw(w1) THEN w1 ELSE [w1 EXCEPT !.so.tasks = @ + 1]

\* The /serialosc/remove handler with the notify inside `if (device)`.
OnSerialoscRemove_NotifyIfFound(w, args) ==
    LET i == FindDevice(w.so.devices, Arg(args, 1), Arg(args, 3))
    IN  IF i # 0
        THEN LET d == w.so.devices[i]
             IN  SendDaemon(Raise(Raise(w, "serialosc", "id:remove", <<d.id, d.devicePort>>),
                                  "serialosc", "device:remove", <<d.id, d.devicePort>>),
                            S_serialosc_notify)
        ELSE w

\* The /serialosc/remove handler.
OnSerialoscRemove(w, args) ==
    LET i == FindDevice(w.so.devices, Arg(args, 1), Arg(args, 3))
        w1 == IF i # 0
              THEN LET d == w.so.devices[i]
                   IN  Raise(Raise(w, "serialosc", "id:remove", <<d.id, d.devicePort>>),
                             "serialosc", "device:remove", <<d.id, d.devicePort>>)
              ELSE w
    IN  SendDaemon(w1, S_serialosc_notify)

-----------------------------------------------------------------------------
(* Dispatch: EventEmitter.emit on a receiver, and one iteration of the     *)
(* receive loop.                                                           *)

\* A handler of the environment (a test's or an application's own listener
\* on the receiver): the call is observed.
OnUser(w, h, args) == [w EXCEPT !.hist.calls = Append(@, [id |-> h.id, args |-> args])]

\* cb(...args) for one registered handler.
Call(w, h, args) ==
    CASE h.fn = "user"              -> OnUser(w, h, args)
      [] h.fn = "sys_id"            -> OnSysId(w, args)
      [] h.fn = "sys_size"          -> OnSysSize(w, args)
      [] h.fn = "sys_rotation"      -> OnSysRotation(w, args)
      [] h.fn = "sys_connect"       -> OnSysConnect(w, args)
      [] h.fn = "sys_disconnect"    -> OnSysDisconnect(w, args)
      [] h.fn = "sys_port"          -> OnSysPort(w, args)
      [] h.fn = "sys_host"          -> OnSysHost(w, args)
      [] h.fn = "sys_prefix"        -> OnSysPrefix(w, args)
      [] h.fn = "grid_key"          -> OnGridKey(w, args)
      [] h.fn = "grid_tilt"         -> OnGridTilt(w, args)
      [] h.fn = "enc_key"           -> OnEncKey(w, args)
      [] h.fn = "enc_delta"         -> OnEncDelta(w, args)
      [] h.fn = "serialosc_device"  -> OnSerialoscDevice(w, args)
      [] h.fn = "serialosc_add"     -> OnSerialoscAdd(w, args)
      [] h.fn = "serialosc_remove"  -> OnSerialoscRemove(w, args)

Invoke(w, h, args) == Call([w EXCEPT !.hist.invoked = @ + 1], h, args)

RECURSIVE InvokeAll(_, _, _)
InvokeAll(w, hs, args) ==
    IF hs = << >> THEN w ELSE InvokeAll(Invoke(w, Head(hs), args), Tail(hs), args)

\* receiver.emit(eventName, ...args): the handlers registered when the emit
\* begins, in registration order.
emit(w, r, ev, args) == InvokeAll(w, Listeners(w.rcv[r], ev), args)

\* The two emits in the other order.
Dispatch_GenericFirst(w, r, address, args) ==
    emit(emit(w, r, S_message, <<Str(address)>> \o args), r, address, args)

\* The two emits of the receive loop for a decoded message.
Dispatch(w, r, address, args) ==
    emit(emit(w, r, address, args), r, S_message, <<Str(address)>> \o args)

\* What becomes of the running loop of receiver R after its iteration: it
\* leaves the while loop when isListening is false (or through the catch when
\* decode threw, died = TRUE), otherwise it awaits receive() on the current
\* socket.
NextLoops(R, died) ==
    LET i == CHOOSE k \in 1..Len(R.loops) : R.loops[k].st = "running"
        rest(keep) == SubSeq(R.loops, 1, i - 1) \o keep \o SubSeq(R.loops, i + 1, Len(R.loops))
    IN  IF died \/ ~R.isListening \/ R.socket = 0 THEN rest(<< >>)
        ELSE rest(<<[sock |-> R.socket, st |-> "awaiting", data |-> << >>]>>)

\* The continuation of `await this.socket.receive()` in startReceiving(),
\* through decode and the emits, to the next await or the loop's end.
LoopIteration(w, r, i) ==
    LET data == w.rcv[r].loops[i].data
        m == decode(data)
        h0 == [BeginStep(w.hist) EXCEPT
                 !.last = [r |-> r, ok |-> ~m.err, address |-> m.address,
                           args |-> m.args],
                 !.acked = IF ~m.err /\ m.address \in {S_sys_port, S_sys_host}
                           THEN @ \cup {m.address} ELSE @]
        w0 == [w EXCEPT !.hist = h0, !.rcv[r].loops[i].st = "running"]
        w1 == IF m.err THEN w0 ELSE Dropped(Dispatch(w0, r, m.address, m.args))
    IN  [w1 EXCEPT !.rcv[r].loops = NextLoops(w1.rcv[r], m.err)]

-----------------------------------------------------------------------------
(* Bounds of the model, and the datagrams the environment may send.        *)

MaxDatagrams == 3      \* datagrams delivered to an OscReceiver under Spec
MaxHandlers == 2       \* environment handlers registered under Spec
MaxSockets == 2        \* sockets one receiver binds (listen after close)
MaxDevDatagrams == 7   \* datagrams delivered to a Device session under SpecDevice
MaxAckDatagrams == 5   \* acknowledgments delivered to a Device session under SpecHandshake
MaxAppDatagrams == 3   \* datagrams delivered to a Device session under SpecPrefix
MaxSoDatagrams == 3    \* datagrams delivered to the SerialOSC client
MaxReceivers == 2      \* receivers the SerialOSC client creates (start after stop)

\* The default daemon port of SerialOSC.
SerialoscPort == 12002

S_a == <<47, 97>>       \* "/a"
S_b == <<47, 98>>       \* "/b"
S_m1 == <<109, 49>>     \* "m1"
S_m2 == <<109, 50>>     \* "m2"
S_monome_128 == <<109, 111, 110, 111, 109, 101, 32, 49, 50, 56>>              \* "monome 128"
S_monome_arc_2 == <<109, 111, 110, 111, 109, 101, 32, 97, 114, 99, 32, 50>>   \* "monome arc 2"

\* A datagram that ends in the middle of its int32 argument.
TruncatedDatagram == SubSeq(encode(S_tilt, <<Num(1)>>), 1, 14)

\* What arrives at the receiver under Spec.
RxDatagrams == { encode(S_tilt, <<Num(1)>>), encode(S_message, <<Num(1)>>), TruncatedDatagram }

\* The event names the environment registers handlers for under Spec.
RxEvents == {S_tilt, S_message}

\* What a device sends to its session during and after the handshake: the
\* /sys replies (echoing what the session has told it) and notifications.
SysDatagrams ==
    { encode(S_sys_port, <<Num(9000)>>), encode(S_sys_host, <<Str(S_localhost)>>),
      encode(S_sys_size, <<Num(16), Num(8)>>), encode(S_sys_rotation, <<Num(0)>>),
      encode(S_sys_prefix, <<Str(S_a)>>),
      encode(S_sys_connect, << >>), encode(S_sys_disconnect, << >>) }

\* The five acknowledgments of the handshake alone.
AckDatagrams ==
    { encode(S_sys_port, <<Num(9000)>>), encode(S_sys_host, <<Str(S_localhost)>>),
      encode(S_sys_size, <<Num(16), Num(8)>>), encode(S_sys_rotation, <<Num(0)>>),
      encode(S_sys_prefix, <<Str(S_a)>>) }

\* Prefix changes and application messages of a grid and of an arc, under
\* two prefixes.
GridDatagrams ==
    { encode(S_sys_prefix, <<Str(S_a)>>), encode(S_sys_prefix, <<Str(S_b)>>),
      encode(S_a \o S_grid_key, <<Num(1), Num(2), Num(1)>>),
      encode(S_b \o S_grid_key, <<Num(1), Num(2), Num(1)>>),
      encode(S_a \o S_tilt, <<Num(0), Num(1), Num(2), Num(3)>>),
      encode(S_sys_id, <<Str(S_m1)>>), encode(S_sys_port, <<Num(9000)>>) }

ArcDatagrams ==
    { encode(S_sys_prefix, <<Str(S_a)>>), encode(S_sys_prefix, <<Str(S_b)>>),
      encode(S_a \o S_enc_key, <<Num(0), Num(1)>>),
      encode(S_b \o S_enc_key, <<Num(0), Num(1)>>),
      encode(S_a \o S_enc_delta, <<Num(0), Num(-3)>>),
      encode(S_b \o S_enc_delta, <<Num(0), Num(-3)>>),
      encode(S_sys_id, <<Str(S_m1)>>), encode(S_sys_port, <<Num(9000)>>) }

\* What the serialosc daemon sends to the client.
SoDatagrams ==
    { encode(S_serialosc_device, <<Str(S_m1), Str(S_monome_128), Num(14001)>>),
      encode(S_serialosc_device, <<Str(S_m1), Str(S_monome_arc_2), Num(14002)>>),
      encode(S_serialosc_device, <<Str(S_m2), Str(S_monome_arc), Num(14001)>>),
      encode(S_serialosc_add, << >>),
      encode(S_serialosc_remove, <<Str(S_m1), Str(S_monome_128), Num(14001)>>) }

\* The listen ports start() may end up with (given in opts, or drawn).
ListenPorts == {7001}

-----------------------------------------------------------------------------
(* States and steps.                                                       *)

\* No codec call: the value of cdc in a specification that makes none.
NoMessage == [err |-> FALSE, address |-> << >>, args |-> << >>]

NoCodec == [op |-> "none", src |-> "none", address |-> << >>, args |-> << >>,
            w |-> [buffer |-> << >>, offset |-> 0, err |-> FALSE],
            data |-> << >>, out |-> NoMessage]

World == [rcv |-> rcv, dev |-> dev, so |-> so, hist |-> hist, net |-> net]

Commit(w) == rcv' = w.rcv /\ dev' = w.dev /\ so' = w.so /\ hist' = w.hist
             /\ UNCHANGED <<cdc, net, snd, names>>

\* The world as a program step (an API call or a continuation) begins.
Step == [World EXCEPT !.hist = BeginStep(@)]

\* A Device after construction and config(): fields of the class, the
\* receiver created by config() is rcv[1].
DeviceInit(type) ==
    [type |-> type, oscReceiver |-> 1, id |-> Str(<< >>), host |-> Str(S_localhost),
     deviceHost |-> Str(S_localhost),
     oscSender |-> NewOscSender(ListenHost(S_localhost), 14001),
     port |-> Num(9000), sizeX |-> Num(0), sizeY |-> Num(0), rotation |-> Num(0),
     prefix |-> Str(S_monome), connected |-> FALSE,
     initMsgs |-> << >>, sentSysInfo |-> FALSE, tasks |-> 0, started |-> FALSE]

\* config(opts) with opts.host and opts.deviceHost given: the session, and
\* the receiver it creates.
DeviceConfig(type, host, deviceHost) ==
    [DeviceInit(type) EXCEPT !.host = Str(host), !.deviceHost = Str(deviceHost),
                             !.oscSender = NewOscSender(ListenHost(deviceHost), 14001)]

ConfigReceiver(host) == NewOscReceiver(9000, ListenHost(host))

\* No Device: the session of a specification that has none.
NoDevice == [DeviceInit("none") EXCEPT !.oscReceiver = 0]

\* A SerialOSC after construction.
SerialOSCInit ==
    [devices |-> << >>, receiver |-> 0, serialoscSender |-> << >>,
     host |-> S_localhost, port |-> 0, serialoscHost |-> S_localhost,
     serialoscPort |-> SerialoscPort, debug |-> FALSE, startDevices |-> TRUE,
     pc |-> "idle", tasks |-> 0]

\* The network hands a datagram to a receive() pending on an open socket.
DeliverTo(r, i, d) ==
    /\ rcv[r].loops[i].st = "awaiting"
    /\ rcv[r].loops[i].sock = rcv[r].socket
    /\ rcv' = [rcv EXCEPT ![r].loops[i] = [@ EXCEPT !.st = "ready", !.data = d]]
    /\ hist' = [hist EXCEPT !.seq = @ + 1]
    /\ UNCHANGED <<dev, so, cdc, net, snd, names>>

\* A receive loop whose receive() has resolved runs its iteration.
Resume ==
    \E r \in 1..Len(rcv) : \E i \in 1..Len(rcv[r].loops) :
        /\ rcv[r].loops[i].st = "ready"
        /\ Commit(LoopIteration(World, r, i))

-----------------------------------------------------------------------------
(* Spec: one OscReceiver and an environment that registers handlers.       *)

NumHandlers(R) ==
    LET RECURSIVE Sum(_)
        Sum(S) == IF S = {} THEN 0
                  ELSE LET e == CHOOSE x \in S : TRUE
                       IN  Len(R.listeners[e]) + Sum(S \ {e})
    IN  Sum(DOMAIN R.listeners)

Init ==
    /\ rcv = <<NewOscReceiver(8000, S_localhost)>>
    /\ dev = NoDevice
    /\ so = SerialOSCInit
    /\ hist = HistInit
    /\ net = "up"
    /\ snd = NoSender
    /\ names = NoNames
    /\ cdc = NoCodec

Listen ==
    /\ rcv[1].isListening \/ rcv[1].nsock < MaxSockets
    /\ Commit([Step EXCEPT !.rcv[1] = R_listen(@)])

Close ==
    /\ Len(rcv) = 1
    /\ Commit(CloseReceiver(Step, 1))

Register ==
    \E ev \in RxEvents :
        /\ NumHandlers(rcv[1]) < MaxHandlers
        /\ Commit(On(Step, 1, ev, "user", NumHandlers(rcv[1]) + 1))

Unregister ==
    \E a \in RxEvents :
        /\ a \in DOMAIN rcv[1].listeners \/ a = S_tilt
        /\ Commit(RemoveListener(Step, 1, a))

UnregisterAll ==
    \E all \in BOOLEAN : \E a \in RxEvents :
        /\ all => a = S_tilt
        /\ Commit(RemoveAllListeners(Step, 1, all, a))

Deliver ==
    \E i \in 1..Len(rcv[1].loops) : \E d \in RxDatagrams :
        /\ hist.seq < MaxDatagrams
        /\ DeliverTo(1, i, d)

Next == Listen \/ Close \/ Register \/ Unregister \/ UnregisterAll \/ Deliver \/ Resume

Spec == Init /\ [][Next]_vars

-----------------------------------------------------------------------------
(* SpecDevice: one Device session (a Grid or an Arc) and its device.       *)

InitDevice ==
    /\ rcv = <<NewOscReceiver(9000, S_localhost)>>
    /\ \E type \in {"grid", "arc"} : dev = DeviceInit(type)
    /\ so = SerialOSCInit
    /\ hist = HistInit
    /\ net = "up"
    /\ snd = NoSender
    /\ names = NoNames
    /\ cdc = NoCodec

\* Device.start(): listen, register the /sys handlers, send /sys/port.
DeviceStart(w) ==
    LET r == w.dev.oscReceiver
        w1 == [w EXCEPT !.dev.initMsgs = InitMsgs, !.dev.sentSysInfo = FALSE,
                        !.dev.started = TRUE, !.rcv[r] = R_listen(@)]
        w2 == On(w1, r, S_sys_id, "sys_id", 0)
        w3 == On(w2, r, S_sys_size, "sys_size", 0)
        w4 == On(w3, r, S_sys_rotation, "sys_rotation", 0)
        w5 == On(w4, r, S_sys_connect, "sys_connect", 0)
        w6 == On(w5, r, S_sys_disconnect, "sys_disconnect", 0)
        w7 == On(w6, r, S_sys_port, "sys_port", 0)
        w8 == On(w7, r, S_sys_host, "sys_host", 0)
        w9 == On(w8, r, S_sys_prefix, "sys_prefix", 0)
    IN  ToCaller(Send(w9, "device", S_sys_port, <<w9.dev.port>>))

\* stop() that closes the receiver and leaves the connected flag as it is.
DeviceStop_KeepsConnected(w) == CloseReceiver(w, w.dev.oscReceiver)

\* Device.stop()
DeviceStop(w) == CloseReceiver([w EXCEPT !.dev.connected = FALSE], w.dev.oscReceiver)

\* start() is called once on a session.
DevStart ==
    /\ ~dev.started
    /\ Commit(DeviceStart(Step))

DevStop == \E r \in {dev.oscReceiver} : Commit(DeviceStop(Step))

\* A receiveInitMsg suspended in `await send("/sys/host")` continues.
DevContinue ==
    /\ dev.tasks > 0
    /\ Commit(Dropped(InitMsgInfoStep([Step EXCEPT !.dev.tasks = @ - 1])))

DevDeliver ==
    \E i \in 1..Len(rcv[1].loops) : \E d \in SysDatagrams :
        /\ hist.seq < MaxDevDatagrams
        /\ DeliverTo(1, i, d)

NextDevice == DevStart \/ DevStop \/ DevContinue \/ DevDeliver \/ Resume

SpecDevice == InitDevice /\ [][NextDevice]_vars

-----------------------------------------------------------------------------
(* SpecPrefix: the same session, with a device that changes its prefix and *)
(* sends application messages.                                             *)

AppDeliver ==
    \E i \in 1..Len(rcv[1].loops) :
        \E d \in (IF dev.type = "grid" THEN GridDatagrams ELSE ArcDatagrams) :
            /\ hist.seq < MaxAppDatagrams
            /\ DeliverTo(1, i, d)

NextPrefix == DevStart \/ DevStop \/ DevContinue \/ AppDeliver \/ Resume

SpecPrefix == InitDevice /\ [][NextPrefix]_vars

-----------------------------------------------------------------------------
(* SpecSerial: the SerialOSC client and the daemon.                        *)

\* SerialOSC.startOSCReceiver()
startOSCReceiver(w) ==
    IF w.so.receiver # 0 THEN w
    ELSE LET r == Len(w.rcv) + 1
             w1 == [w EXCEPT !.rcv = Append(@, R_listen(NewOscReceiver(w.so.port, ListenHost(w.so.host)))),
                             !.so.receiver = r]
             w2 == On(w1, r, S_serialosc_device, "serialosc_device", 0)
             w3 == On(w2, r, S_serialosc_add, "serialosc_add", 0)
         IN  On(w3, r, S_serialosc_remove, "serialosc_remove", 0)

\* SerialOSC.start(opts) up to its suspension in `await send(notify)`; port
\* is opts.port, or the port drawn when opts gives none; host and
\* serialoscHost are those of opts, or "localhost" when opts gives none.
SerialOSCStartOpts(w, port, host, serialoscHost) ==
    LET w1 == [w EXCEPT !.so.host = host, !.so.port = port,
                        !.so.serialoscHost = serialoscHost,
                        !.so.serialoscPort = SerialoscPort, !.so.debug = FALSE]
        w2 == IF w1.so.serialoscSender = << >>
              THEN [w1 EXCEPT !.so.serialoscSender =
                        <<NewOscSender(ListenHost(w1.so.serialoscHost),
                                       w1.so.serialoscPort)>>]
              ELSE w1
        w3 == startOSCReceiver(w2)
        w4 == SendDaemon(w3, S_serialosc_notify)
    IN  IF Threw(w4) THEN ToCaller(w4) ELSE [w4 EXCEPT !.so.pc = "list"]

\* start() sending notify before it starts the receiver.
SerialOSCStart_SendFirst(w, port) ==
    LET w1 == [w EXCEPT !.so.host = S_localhost, !.so.port = port,
                        !.so.serialoscHost = S_localhost,
                        !.so.serialoscPort = SerialoscPort, !.so.debug = FALSE]
        w2 == IF w1.so.serialoscSender = << >>
              THEN [w1 EXCEPT !.so.serialoscSender =
                        <<NewOscSender(ListenHost(w1.so.serialoscHost),
                                       w1.so.serialoscPort)>>]
              ELSE w1
    IN  [startOSCReceiver(SendDaemon(w2, S_serialosc_notify)) EXCEPT !.so.pc = "list"]

\* SerialOSC.start(opts) with opts that name no host: both default to
\* "localhost".
SerialOSCStart(w, port) == SerialOSCStartOpts(w, port, S_localhost, S_localhost)

\* SerialOSC.stop()
SerialOSCStop(w) ==
    IF w.so.receiver = 0 THEN w
    ELSE [CloseReceiver(w, w.so.receiver) EXCEPT !.so.receiver = 0, !.so.devices = << >>]

InitSerial ==
    /\ rcv = << >>
    /\ dev = NoDevice
    /\ so = SerialOSCInit
    /\ hist = HistInit
    /\ net = "up"
    /\ snd = NoSender
    /\ names = NoNames
    /\ cdc = NoCodec

\* start() is awaited by its caller: it is not called again while suspended.
SoStart ==
    \E port \in ListenPorts :
        /\ so.pc = "idle"
        /\ so.receiver # 0 \/ Len(rcv) < MaxReceivers
        /\ Commit(SerialOSCStart(Step, port))

\* start() continues after its first send: it requests the device list.
SoStartList ==
    /\ so.pc = "list"
    /\ Commit(ToCaller([SendDaemon(Step, S_serialosc_list) EXCEPT !.so.pc = "idle"]))

SoStop == \E r \in {so.receiver} : Commit(SerialOSCStop(Step))

\* A /serialosc/add handler suspended in `await send(list)` continues.
SoContinue ==
    /\ so.tasks > 0
    /\ Commit(Dropped(SendDaemon([Step EXCEPT !.so.tasks = @ - 1], S_serialosc_notify)))

SoDeliver ==
    \E r \in 1..Len(rcv) : \E i \in 1..Len(rcv[r].loops) : \E d \in SoDatagrams :
        /\ hist.seq < MaxSoDatagrams
        /\ DeliverTo(r, i, d)

NextSerial == SoStart \/ SoStartList \/ SoStop \/ SoContinue \/ SoDeliver \/ Resume

SpecSerial == InitSerial /\ [][NextSerial]_vars

-----------------------------------------------------------------------------
(* SpecHandshake: a started session whose device sends nothing but the     *)
(* acknowledgments of the handshake, each any number of times, in any      *)
(* order.                                                                  *)

AckDeliver ==
    \E i \in 1..Len(rcv[1].loops) : \E d \in AckDatagrams :
        /\ hist.seq < MaxAckDatagrams
        /\ DeliverTo(1, i, d)

NextHandshake == DevStart \/ DevContinue \/ AckDeliver \/ Resume

SpecHandshake == InitDevice /\ [][NextHandshake]_vars

-----------------------------------------------------------------------------
(* SpecStart: the SerialOSC client started, stopped and started again on   *)
(* either of two listen ports, and a daemon that announces one device and  *)
(* reports hot-plug events.                                                *)

MaxStartDatagrams == 2  \* datagrams delivered to the client under SpecStart

\* The listen ports start() may be given, or draw, under SpecStart.
StartPorts == {7001, 7002}

StartDatagrams ==
    { encode(S_serialosc_device, <<Str(S_m1), Str(S_monome_128), Num(14001)>>),
      encode(S_serialosc_add, << >>),
      encode(S_serialosc_remove, <<Str(S_m1), Str(S_monome_128), Num(14001)>>) }

StartAny ==
    \E port \in StartPorts :
        /\ so.pc = "idle"
        /\ so.receiver # 0 \/ Len(rcv) < MaxReceivers
        /\ Commit(SerialOSCStart(Step, port))

StartDeliver ==
    \E r \in 1..Len(rcv) : \E i \in 1..Len(rcv[r].loops) : \E d \in StartDatagrams :
        /\ hist.seq < MaxStartDatagrams
        /\ DeliverTo(r, i, d)

NextStart == StartAny \/ SoStartList \/ SoStop \/ SoContinue \/ StartDeliver \/ Resume

SpecStart == InitSerial /\ [][NextStart]_vars

-----------------------------------------------------------------------------
(* SpecKinds: a started SerialOSC client to which the daemon announces     *)
(* devices of many models.                                                 *)

MaxKindDatagrams == 2  \* announcements delivered under SpecKinds

S_x == <<120>>                              \* "x"
S_space == <<32>>                           \* " "
S_monome_ar == <<109, 111, 110, 111, 109, 101, 32, 97, 114>>     \* "monome ar"
S_arc_2 == <<97, 114, 99, 32, 50>>          \* "arc 2"

\* The parts arc models are composed of: something before "monome arc",
\* an optional space after it, an optional digit.
KindPre == {<< >>, S_x}
KindSep == {<< >>, S_space}
KindDigits == {<< >>, <<50>>, <<56>>}       \* none, "2", "8"

\* Models that do not contain "monome arc".
GridModels == {S_monome_128, S_monome_ar, S_arc_2}

KindModels ==
    {pre \o S_monome_arc \o sep \o dig : pre \in KindPre, sep \in KindSep, dig \in KindDigits}
        \cup GridModels

KindDatagrams ==
    {encode(S_serialosc_device, <<Str(k[1]), Str(model), Num(k[2])>>) :
        k \in {<<S_m1, 14001>>, <<S_m2, 14002>>}, model \in KindModels}

KindDeliver ==
    \E r \in 1..Len(rcv) : \E i \in 1..Len(rcv[r].loops) : \E d \in KindDatagrams :
        /\ hist.seq < MaxKindDatagrams
        /\ DeliverTo(r, i, d)

NextKinds == SoStart \/ SoStartList \/ KindDeliver \/ Resume

SpecKinds == InitSerial /\ [][NextKinds]_vars

-----------------------------------------------------------------------------
(* SpecCodec: OscEncoder.encode and OscDecoder.decode as a caller uses     *)
(* them.  cdc records the last call:                                       *)
(*   op       "input", "encode", "truncate", "corrupt" or "decode"         *)
(*   src      for a decode, what produced the buffer it was given          *)
(*   address, args   the message last given to encode                      *)
(*   w        the write cursor encode ended with                           *)
(*   data     the buffer at hand: encode's result, or what the network     *)
(*            made of it                                                   *)
(*   out      what decode returned (err when it threw)                     *)

MaxCodecArgs == 2      \* arguments of a message given to encode under SpecCodec

S_ab == <<47, 97, 98>>           \* "/ab"
S_abc == <<97, 98, 99>>          \* "abc"
S_abcd == <<97, 98, 99, 100>>    \* "abcd"
S_a_nul_b == <<97, 0, 98>>       \* "a\0b"

\* Addresses given to encode: their lengths cover every residue modulo 4.
CodecAddresses == {S_a, S_ab, S_tilt, S_sys_id, S_abcd}

\* Argument values given to encode: whole numbers (a whole float such as 2.0
\* is the same JavaScript value as the integer), the floats 0.5 and -2.5,
\* strings, a string with an embedded null, and a value of no supported type.
CodecArgs ==
    { Num(1), Num(-1), Num(2147483647), F32(<<63, 0, 0, 0>>), F32(<<192, 32, 0, 0>>),
      Str(<< >>), Str(S_abc), Str(S_abcd), Str(S_a_nul_b), Undef }

\* The argument lists of at most MaxCodecArgs arguments.
CodecArgLists ==
    UNION { [1..n -> CodecArgs] : n \in 0..MaxCodecArgs }

\* The bytes the network may put in the place of one byte of a datagram.
CorruptBytes == {0, 47, 105}

\* A caller holds a message to encode.
InitCodec ==
    /\ rcv = << >>
    /\ dev = NoDevice
    /\ so = SerialOSCInit
    /\ hist = HistInit
    /\ net = "up"
    /\ snd = NoSender
    /\ names = NoNames
    /\ \E address \in CodecAddresses : \E args \in CodecArgLists :
          cdc = [NoCodec EXCEPT !.op = "input", !.address = address, !.args = args]

\* OscEncoder.encode(address, args)
CodecEncode ==
    /\ cdc.op = "input"
    /\ cdc' = LET w == EncodeCursor(cdc.address, cdc.args)
              IN  [cdc EXCEPT !.op = "encode", !.w = w,
                              !.data = IF w.err THEN << >> ELSE w.buffer]
    /\ UNCHANGED <<rcv, dev, so, hist, net, snd, names>>

\* The encoded buffer arrives cut short.
CodecTruncate ==
    \E n \in 0..(Len(cdc.data) - 1) :
        /\ cdc.op = "encode"
        /\ cdc' = [cdc EXCEPT !.op = "truncate", !.data = SubSeq(cdc.data, 1, n)]
        /\ UNCHANGED <<rcv, dev, so, hist, net, snd, names>>

\* The encoded buffer arrives with the byte after the padded address changed.
CodecCorrupt ==
    \E b \in CorruptBytes :
        /\ cdc.op = "encode"
        /\ alignedStringSize(cdc.address) < Len(cdc.data)
        /\ cdc' = [cdc EXCEPT !.op = "corrupt",
                              !.data[alignedStringSize(cdc.address) + 1] = b]
        /\ UNCHANGED <<rcv, dev, so, hist, net, snd, names>>

\* OscDecoder.decode(data)
CodecDecode ==
    /\ cdc.op \in {"encode", "truncate", "corrupt"}
    /\ cdc' = [cdc EXCEPT !.op = "decode", !.src = cdc.op, !.out = decode(cdc.data)]
    /\ UNCHANGED <<rcv, dev, so, hist, net, snd, names>>

NextCodec == CodecEncode \/ CodecTruncate \/ CodecCorrupt \/ CodecDecode

SpecCodec == InitCodec /\ [][NextCodec]_vars

-----------------------------------------------------------------------------
(* Properties.                                                             *)

ReadyCount(R) == Cardinality({i \in 1..Len(R.loops) : R.loops[i].st = "ready"})

\* This step is an iteration of a receive loop of receiver r.
Iterated(r) == ReadyCount(rcv'[r]) < ReadyCount(rcv[r])

Initialized == CountOf(hist.count, <<"initialized", << >>>>)

\* The loop of the session's receiver is idle: every delivered datagram has
\* been processed.
Quiet == \A i \in 1..Len(rcv[1].loops) : rcv[1].loops[i].st = "awaiting"

FourAcked ==
    \A a \in {S_sys_size, S_sys_rotation, S_sys_host, S_sys_port} : ~Includes(dev.initMsgs, a)

\* C1 as stated: in a started session that has processed the four
\* acknowledgments /sys/size, /sys/rotation, /sys/host and /sys/port (in
\* whatever order), 'initialized' has been raised exactly once and the
\* session is connected.
C1_FourAcksInitialize ==
    (dev.started /\ Quiet /\ FourAcked) => (Initialized = 1 /\ dev.connected)

\* C1 amended: the handshake waits for five acknowledgments.  In a started
\* session that receives only acknowledgments, in any order and with
\* repeats, 'initialized' has been raised exactly once and the session is
\* connected when /sys/host, /sys/port, /sys/prefix, /sys/rotation and
\* /sys/size have all been processed, and it has not been raised and the
\* session is not connected before that.
C1_FiveAcksInitialize ==
    dev.started =>
        /\ Initialized = (IF dev.initMsgs = << >> THEN 1 ELSE 0)
        /\ dev.connected = (dev.initMsgs = << >>)

C1_Witness ==
    /\ dev.started /\ Quiet /\ hist.seq = 5
    /\ dev.initMsgs = << >> /\ dev.connected /\ Initialized = 1

\* C2: a session raises 'initialized' at most once over its lifetime,
\* whatever /sys messages follow, /sys/connect and /sys/disconnect included.
C2_InitializedAtMostOnce == Initialized <= 1

\* The <<id, devicePort>> pairs of a device list.
Pairs(devices) == {<<devices[i].id, devices[i].devicePort>> : i \in 1..Len(devices)}

\* The <<id, devicePort>> pairs the daemon names in its datagrams.
NamedPairs ==
    {<<Arg(decode(d).args, 1), Arg(decode(d).args, 3)>> : d \in SoDatagrams} \ {<<Undef, Undef>>}

AddCount(k) == CountOf(hist.count, <<"device:add", k>>)

\* The client has been started once and not stopped since.
FirstRun == so.receiver = 1 /\ Len(rcv) = 1

\* This step is the client's processing of a decoded message at address a.
Handled(a) ==
    /\ Len(rcv) >= 1 /\ Iterated(1)
    /\ hist'.last.ok /\ hist'.last.address = a

\* C3: on a started client that has not been stopped, the descriptor set
\* holds exactly one descriptor per announced <<id, devicePort>> and
\* 'device:add' has been raised exactly once for each; an announcement puts
\* its pair into the set, and an announcement of a pair already in the set
\* changes nothing and raises nothing.
C3_AnnouncementsDeduplicated ==
    [][ FirstRun' =>
          /\ Cardinality(Pairs(so'.devices)) = Len(so'.devices)
          /\ \A k \in NamedPairs :
                CountOf(hist'.count, <<"device:add", k>>)
                    = (IF k \in Pairs(so'.devices) THEN 1 ELSE 0)
          /\ Handled(S_serialosc_device) =>
                LET k == <<Arg(hist'.last.args, 1), Arg(hist'.last.args, 3)>>
                IN  /\ k \in Pairs(so'.devices)
                    /\ k \in Pairs(so.devices) => (so' = so /\ hist'.events = << >>)
      ]_vars

\* Two devices are known and the last announcement was a repeat.
C3_Witness ==
    /\ FirstRun /\ Len(so.devices) = 2 /\ Quiet
    /\ hist.last.ok /\ hist.last.address = S_serialosc_device
    /\ hist.events = << >> /\ hist.seq = 3
    /\ \A k \in Pairs(so.devices) : AddCount(k) = 1

\* C4: processing /serialosc/remove(id, model, devicePort) for a pair of the
\* descriptor set removes the descriptor and raises one 'device:remove';
\* afterwards the set does not contain the pair, and a remove for a pair that
\* is not in the set raises no event.
C4_RemoveDeletesDescriptor ==
    [][ Handled(S_serialosc_remove) =>
          LET k == <<Arg(hist'.last.args, 1), Arg(hist'.last.args, 3)>>
              removes == SelectSeq(hist'.events, LAMBDA e : e.name = "device:remove")
          IN  /\ k \notin Pairs(so'.devices)
              /\ Len(removes) = (IF k \in Pairs(so.devices) THEN 1 ELSE 0)
      ]_vars

\* The addresses a session of the given type subscribes under a prefix, and
\* the event each raises.
KindAddresses(type) ==
    IF type = "grid" THEN {<<S_grid_key, "key">>, <<S_tilt, "tilt">>}
    ELSE {<<S_enc_key, "key">>, <<S_enc_delta, "delta">>}

\* C5: once the session has been given a prefix by /sys/prefix, a message at
\* <current prefix><address of its kind> raises the handler's event, and a
\* message at such an address under another prefix (one that was current
\* before) raises no event.
C5_OnlyCurrentPrefixDispatched ==
    [][ (Iterated(1) /\ hist'.last.ok /\ dev.prefix.v \in {S_a, S_b}) =>
          \A P \in {S_a, S_b} : \A k \in KindAddresses(dev.type) :
              hist'.last.address = P \o k[1] =>
                  IF P = dev.prefix.v
                  THEN \E i \in 1..Len(hist'.events) : hist'.events[i].name = k[2]
                  ELSE hist'.events = << >>
      ]_vars

\* C6: a decode failure does not stop the receive loop: whenever a receiver
\* is listening, one of its loops is waiting on its socket or about to, so a
\* datagram that arrives later is still received, decoded and dispatched.
C6_LoopSurvivesDecodeFailure ==
    \A r \in 1..Len(rcv) :
        rcv[r].isListening =>
            \E i \in 1..Len(rcv[r].loops) :
                \/ rcv[r].loops[i].st = "ready"
                \/ rcv[r].loops[i].sock = rcv[r].socket

\* C7: close() is idempotent, and in a state where close() has returned
\* (the receiver is not listening) no step invokes a handler of the receiver,
\* not even for a datagram whose receive had completed before the close.
C7_NoDispatchAfterClose ==
    [][ \A r \in 1..Len(rcv) :
          /\ R_close(R_close(rcv[r])) = R_close(rcv[r])
          /\ (~rcv[r].isListening /\ Iterated(r)) => hist'.invoked = 0
      ]_vars

\* C8: after close(), and after removeAllListeners() without argument, no
\* handler remains registered on the receiver, for any event name.
C8_CloseClearsListeners ==
    \A r \in hist.cleared : ~HasListeners(rcv[r])

IsPrefixOf(s, t) == Len(s) <= Len(t) /\ SubSeq(t, 1, Len(s)) = s

\* C9: after removeListener(address) no handler is registered for address,
\* and the step leaves the handlers of every other address registered.
C9_OffRemovesHandlers ==
    [][ \A r \in 1..Len(rcv) :
          /\ \A a \in DOMAIN rcv'[r].listeners :
                <<r, a>> \in hist'.off => rcv'[r].listeners[a] = << >>
          /\ \A a \in DOMAIN rcv[r].listeners :
                <<r, a>> \notin hist'.off =>
                    IsPrefixOf(rcv[r].listeners[a], Listeners(rcv'[r], a))
      ]_vars

\* The calls a message must cause, given the listener table as the
\* iteration begins: the handlers of its address with its arguments, then
\* the 'message' handlers with the address and the arguments.
ExpectedCalls(R, address, args) ==
    LET exact == Listeners(R, address)
        generic == Listeners(R, S_message)
    IN  [i \in 1..Len(exact) |-> [id |-> exact[i].id, args |-> args]]
        \o [i \in 1..Len(generic) |-> [id |-> generic[i].id, args |-> <<Str(address)>> \o args]]

\* C10: while the receiver is listening, an iteration whose datagram decodes
\* calls the handlers registered for the decoded address, in registration
\* order and with the decoded arguments, and then the 'message' handlers with
\* the address followed by the arguments; it calls nothing else.
C10_DispatchExactThenGeneric ==
    [][ \A r \in 1..Len(rcv) :
          (rcv[r].isListening /\ Iterated(r) /\ hist'.last.ok) =>
              /\ \E i \in 1..Len(rcv[r].loops) :
                    /\ rcv[r].loops[i].st = "ready"
                    /\ decode(rcv[r].loops[i].data).address = hist'.last.address
                    /\ decode(rcv[r].loops[i].data).args = hist'.last.args
              /\ hist'.calls = ExpectedCalls(rcv[r], hist'.last.address, hist'.last.args)
              /\ hist'.invoked = Len(hist'.calls)
      ]_vars

\* A message at /tilt has just been given to a /tilt handler and then to a
\* 'message' handler.
C10_Witness ==
    /\ rcv[1].isListening /\ hist.last.ok /\ hist.last.address = S_tilt
    /\ Len(hist.calls) = 2
    /\ hist.calls[1].args = hist.last.args
    /\ hist.calls[2].args = <<Str(S_tilt)>> \o hist.last.args
    /\ hist.calls[1].id # hist.calls[2].id

-----------------------------------------------------------------------------
(* Properties of the codec.                                                *)

\* A string followed by its null terminator and zero padding up to the next
\* multiple of four bytes.
Padded(str) == str \o [i \in 1..(4 - (Len(str) % 4)) |-> 0]

Supported(args) == \A i \in 1..Len(args) : args[i].t \in {"number", "float", "string"}

HasNul(str) == \E i \in 1..Len(str) : str[i] = 0

NulFree(args) == \A i \in 1..Len(args) : args[i].t = "string" => ~HasNul(args[i].v)

\* C11 as stated: decoding what encode returned for an address and a list of
\* int32, float32 and string arguments gives back the same address and the
\* same arguments, in number, order and value.
C11_RoundTrip ==
    (cdc.op = "decode" /\ cdc.src = "encode" /\ Supported(cdc.args)) =>
        /\ ~cdc.out.err
        /\ cdc.out.address = cdc.address
        /\ cdc.out.args = cdc.args

\* buf holds Padded(str) at the 0-based offset off, a multiple of four.
FieldAt(buf, off, str) ==
    /\ off % 4 = 0
    /\ off + Len(Padded(str)) <= Len(buf)
    /\ SubSeq(buf, off + 1, off + Len(Padded(str))) = Padded(str)

\* The offset after the arguments when they are laid out from off on, each
\* string argument as a field at a 4-byte boundary and each number in four
\* bytes; -1 when some string argument is not such a field of buf.
RECURSIVE ArgsEnd(_, _, _)
ArgsEnd(buf, off, args) ==
    IF args = << >> THEN off
    ELSE LET a == Head(args) IN
         CASE a.t = "string" ->
                IF FieldAt(buf, off, a.v)
                THEN ArgsEnd(buf, off + Len(Padded(a.v)), Tail(args))
                ELSE -1
           [] a.t \in {"number", "float"} -> ArgsEnd(buf, off + 4, Tail(args))
           [] OTHER -> ArgsEnd(buf, off, Tail(args))

\* The offset after the type-tag string that starts at off: a ',' and
\* non-zero bytes, a null terminator and zero padding to the next multiple of
\* four; -1 when buf holds no such field there.
TagsEnd(buf, off) ==
    LET nuls == {n \in off..(Len(buf) - 1) : buf[n + 1] = 0}
        n == CHOOSE k \in nuls : \A j \in nuls : k <= j
        end == off + ((n - off) \div 4 + 1) * 4
    IN  IF off % 4 # 0 \/ off >= Len(buf) \/ buf[off + 1] # 44 \/ nuls = {} THEN -1
        ELSE IF end <= Len(buf) /\ \A k \in n..(end - 1) : buf[k + 1] = 0 THEN end ELSE -1

\* C12: the buffer encode returns has a length that is a multiple of four;
\* the address, the type-tag string and every string argument start at a
\* 4-byte boundary, are null-terminated and zero-padded; and the final write
\* offset equals the length of the buffer.
C12_EncodedAligned ==
    cdc.op = "encode" =>
        /\ ~cdc.w.err
        /\ Len(cdc.w.buffer) % 4 = 0
        /\ cdc.w.offset = Len(cdc.w.buffer)
        /\ FieldAt(cdc.w.buffer, 0, cdc.address)
        /\ TagsEnd(cdc.w.buffer, Len(Padded(cdc.address))) # -1
        /\ ArgsEnd(cdc.w.buffer, TagsEnd(cdc.w.buffer, Len(Padded(cdc.address))), cdc.args)
              = Len(cdc.w.buffer)

\* encode has laid out an address and a string argument that each need a
\* whole extra word for their terminator, followed by a number.
C12_Witness ==
    /\ cdc.op = "encode"
    /\ cdc.address = S_abcd
    /\ cdc.args = <<Str(S_abcd), Num(1)>>
    /\ Len(cdc.data) = 24

\* The bytes an argument needs to be complete in a buffer: the four bytes of
\* a number, the bytes of a string and its null terminator.
Needed(a) == IF a.t = "string" THEN Len(a.v) + 1 ELSE 4

RECURSIVE PaddedArgs(_)
PaddedArgs(args) ==
    IF args = << >> THEN 0
    ELSE (IF Head(args).t = "string" THEN Len(Padded(Head(args).v)) ELSE 4)
         + PaddedArgs(Tail(args))

\* The buffer at hand is the encoding of the message cut after its type tags
\* and before the end of its last argument: some declared argument is not
\* complete in it.
MidArgument ==
    LET tags == [i \in 1..(Len(cdc.args) + 1) |-> 44]
        start == Len(Padded(cdc.address)) + Len(Padded(tags))
        n == Len(cdc.args)
    IN  /\ cdc.src = "truncate"
        /\ Supported(cdc.args) /\ NulFree(cdc.args)
        /\ n > 0
        /\ Len(cdc.data) >= start
        /\ Len(cdc.data) < start + PaddedArgs(SubSeq(cdc.args, 1, n - 1)) + Needed(cdc.args[n])

\* C13 as stated: decode on a buffer that ends in the middle of a declared
\* argument fails; it does not return a message.
C13_TruncatedArgumentFails ==
    (cdc.op = "decode" /\ MidArgument) => cdc.out.err

\* C14: decode on a buffer whose padded address is followed by nothing, or by
\* a byte other than ',', returns that address with no arguments and does not
\* fail.
C14_NoTypeTags ==
    LET P == Len(Padded(cdc.address))
    IN  (/\ cdc.op = "decode"
         /\ Len(cdc.data) >= P
         /\ SubSeq(cdc.data, 1, P) = Padded(cdc.address)
         /\ Len(cdc.data) = P \/ cdc.data[P + 1] # 44)
        => (~cdc.out.err /\ cdc.out.address = cdc.address /\ cdc.out.args = << >>)

\* decode was given a message with an argument whose ',' had become an 'i',
\* and returned the address without arguments.
C14_Witness ==
    /\ cdc.op = "decode" /\ cdc.src = "corrupt"
    /\ cdc.args = <<Num(1)>>
    /\ cdc.data[Len(Padded(cdc.address)) + 1] = 105
    /\ ~cdc.out.err /\ cdc.out.address = cdc.address /\ cdc.out.args = << >>

\* C15 as stated: encode rejects a string argument with an embedded null
\* byte: the call fails and yields no buffer.
C15_EmbeddedNulRejected ==
    (cdc.op = "encode" /\ \E i \in 1..Len(cdc.args) :
                              cdc.args[i].t = "string" /\ HasNul(cdc.args[i].v))
        => (cdc.w.err /\ cdc.data = << >>)

-----------------------------------------------------------------------------
(* Properties of the classification.                                       *)

\* C16: the type and the encoders of an announced device follow from its
\* model alone: a model with "monome arc", an optional space and a digit d is
\* an arc with d encoders; a model with "monome arc" and no digit is an arc
\* with 4 encoders; any other model is a grid.
C16_KindFromModel ==
    \A i \in 1..Len(so.devices) :
        LET d == so.devices[i] IN
        /\ d.model.v \in KindModels
        /\ \A pre \in KindPre : \A sep \in KindSep : \A dig \in KindDigits :
              d.model.v = pre \o S_monome_arc \o sep \o dig =>
                  /\ d.type = "arc"
                  /\ d.encoders = Num(IF dig = << >> THEN 4 ELSE dig[1] - 48)
        /\ d.model.v \in GridModels => (d.type = "grid" /\ d.encoders = Undef)

\* The client holds an arc announced as "monome arc 2", with 2 encoders, and
\* a device announced as "monome 128", a grid.
C16_Witness ==
    /\ \E i \in 1..Len(so.devices) :
          /\ so.devices[i].model.v = S_monome_arc_2
          /\ so.devices[i].type = "arc" /\ so.devices[i].encoders = Num(2)
    /\ \E i \in 1..Len(so.devices) :
          so.devices[i].model.v = S_monome_128 /\ so.devices[i].type = "grid"

-----------------------------------------------------------------------------
(* Properties of the discovery protocol.                                   *)

\* This step is the processing of a decoded message at address a by a
\* receive loop of some receiver.
HandledAny(a) ==
    /\ \E r \in 1..Len(rcv) : Iterated(r)
    /\ hist'.last.ok /\ hist'.last.address = a

\* m is the message address(listenHost, port) to the daemon, for the listen
\* host and port of client c.
IsDaemonMsg(m, address, c) ==
    /\ m.to = "daemon" /\ m.address = address
    /\ m.args = <<Str(IF c.host = S_localhost THEN S_loopback ELSE c.host), Num(c.port)>>

\* The step recorded in h sent that message and nothing else.
SentOnly(h, address, c) == Len(h.sent) = 1 /\ IsDaemonMsg(h.sent[1], address, c)

C18_AddListThenNotify ==
    [][ /\ HandledAny(S_serialosc_add) =>
              (SentOnly(hist', S_serialosc_list, so) /\ so'.tasks = so.tasks + 1)
        /\ so'.tasks < so.tasks =>
              (SentOnly(hist', S_serialosc_notify, so) /\ so'.tasks = so.tasks - 1)
      ]_vars

\* One /serialosc/add has arrived and its handling has completed with the
\* notify.
C18_Witness ==
    /\ hist.seq = 1 /\ hist.last.ok /\ hist.last.address = S_serialosc_add
    /\ so.tasks = 0
    /\ SentOnly(hist, S_serialosc_notify, so)

\* C19: the handling of a /serialosc/remove sends /serialosc/notify with the
\* client's listen host and port exactly once, whether or not the device it
\* names is in the descriptor set.
C19_RemoveRenotifies ==
    [][ HandledAny(S_serialosc_remove) => SentOnly(hist', S_serialosc_notify, so) ]_vars

\* A /serialosc/remove for a device that is not in the descriptor set has
\* been handled: no event, one notify.
C19_Witness ==
    /\ hist.seq = 1 /\ hist.last.ok /\ hist.last.address = S_serialosc_remove
    /\ so.devices = << >> /\ so.receiver # 0
    /\ hist.events = << >>
    /\ SentOnly(hist, S_serialosc_notify, so)

-----------------------------------------------------------------------------
(* Properties of the handshake's requests.                                 *)

\* C20 as stated: a started session has sent /sys/info at most once, and only
\* after the acknowledgments /sys/port and /sys/host have both been
\* processed; and once both have been processed and no handler is suspended
\* or pending, it has sent it exactly once.
C20_SysInfoExactlyOnce ==
    dev.started =>
        /\ hist.infoSent <= 1
        /\ hist.infoSent = 1 => {S_sys_port, S_sys_host} \subseteq hist.acked
        /\ ({S_sys_port, S_sys_host} \subseteq hist.acked /\ Quiet /\ dev.tasks = 0)
              => hist.infoSent = 1

\* The messages at the given address that the step recorded in h sent to the
\* device.
SentToDevice(h, address) ==
    SelectSeq(h.sent, LAMBDA m : m.to = "device" /\ m.address = address)

\* C21 as stated: the session sends /sys/host(ownHost) only when the
\* /sys/port acknowledgment has been processed and no /sys/host
\* acknowledgment has: never before the one, never after the other; and the
\* first message it sends is /sys/port(ownPort).
C21_HostAfterPortBeforeHost ==
    [][ /\ \A i \in 1..Len(SentToDevice(hist', S_sys_host)) :
              /\ SentToDevice(hist', S_sys_host)[i].args = <<dev'.host>>
              /\ S_sys_port \in hist'.acked
              /\ S_sys_host \notin hist'.acked
        /\ hist'.first # << >> =>
              /\ hist'.first[1].address = S_sys_port
              /\ hist'.first[1].args = <<DeviceInit(dev.type).port>>
      ]_vars

\* C22: in every state of a started session an inbound /sys/connect sets the
\* connected flag and raises 'connected', an inbound /sys/disconnect clears
\* it and raises 'disconnected', and neither does anything else: the pending
\* handshake set and every other field stay as they are, no 'initialized'
\* is raised and no message is sent.
C22_ConnectDisconnectOnlyFlag ==
    [][ \A c \in {S_sys_connect, S_sys_disconnect} :
          (dev.started /\ HandledAny(c)) =>
              /\ dev' = [dev EXCEPT !.connected = (c = S_sys_connect)]
              /\ hist'.events =
                    <<[src |-> "device",
                       name |-> IF c = S_sys_connect THEN "connected" ELSE "disconnected",
                       arg |-> << >>]>>
              /\ hist'.sent = << >>
              /\ hist'.count = hist.count
      ]_vars

\* A /sys/connect was handled while the handshake was still incomplete.
C22_Witness ==
    /\ dev.started /\ hist.last.ok /\ hist.last.address = S_sys_connect
    /\ dev.connected /\ dev.initMsgs # << >> /\ Initialized = 0
    /\ Len(hist.events) = 1 /\ hist.events[1].name = "connected"

\* C23 as stated: an acknowledgment for a field that is still pending
\* removes the field from the pending set in every state of a started
\* session, also when an unsolicited /sys/connect was received before it.
C23_AckRemovesPendingField ==
    [][ \A a \in {S_sys_port, S_sys_host, S_sys_size, S_sys_rotation, S_sys_prefix} :
          (dev.started /\ HandledAny(a) /\ Includes(dev.initMsgs, a)) =>
              ~Includes(dev'.initMsgs, a)
      ]_vars

\* C24 as stated: in every reachable state of the SerialOSC client, no
\* receiver (receiver = null, as stop() leaves it) implies an empty
\* descriptor set.
C24_NoReceiverNoDescriptors == so.receiver = 0 => so.devices = << >>

\* The session's receiver is closed: not listening, its socket released.
ReceiverClosed(R) == ~R.isListening /\ R.socket = 0

\* C25: from any state, Device.stop() leaves the session with connected =
\* false and its receiver closed and changes nothing else of the session;
\* on a session already in that state (stopped before, or never started) it
\* changes nothing at all.
C25_StopIdempotent ==
    [][ DevStop =>
          /\ dev' = [dev EXCEPT !.connected = FALSE]
          /\ ReceiverClosed(rcv'[dev.oscReceiver])
          /\ (~dev.connected /\ ReceiverClosed(rcv[dev.oscReceiver])) =>
                (dev' = dev /\ rcv' = rcv)
      ]_vars

\* stop() has just closed the receiver of a session that had completed its
\* handshake.
C25_Witness ==
    /\ dev.started /\ Initialized = 1 /\ dev.initMsgs = << >>
    /\ hist.cleared = {dev.oscReceiver}
    /\ ~dev.connected /\ ReceiverClosed(rcv[dev.oscReceiver])

-----------------------------------------------------------------------------
(* SpecSendFailure: a Device session and the SerialOSC client in one       *)
(* process, with a network on which the sender's socket calls fail for a   *)
(* while (permission denied, connection refused by a daemon that is not    *)
(* running, any other error of listenDatagram or send).                    *)

MaxFailDatagrams == 3   \* datagrams delivered under SpecSendFailure

\* What arrives on receiver r: acknowledgments of the device on the
\* session's receiver, hot-plug notifications of the daemon on the client's.
FailDatagrams(r) ==
    IF r = dev.oscReceiver
    THEN { encode(S_sys_port, <<Num(9000)>>), encode(S_sys_host, <<Str(S_localhost)>>) }
    ELSE { encode(S_serialosc_add, << >>),
           encode(S_serialosc_remove, <<Str(S_m1), Str(S_monome_128), Num(14001)>>) }

FailDeliver ==
    \E r \in 1..Len(rcv) : \E i \in 1..Len(rcv[r].loops) : \E d \in FailDatagrams(r) :
        /\ hist.seq < MaxFailDatagrams
        /\ DeliverTo(r, i, d)

\* The sender's socket calls begin to fail, or succeed again.
NetChange ==
    /\ net' = (IF net = "up" THEN "down" ELSE "up")
    /\ UNCHANGED <<rcv, dev, so, hist, cdc, snd, names>>

NextSendFailure ==
    \/ DevStart \/ DevContinue \/ SoStart \/ SoStartList \/ SoContinue
    \/ FailDeliver \/ Resume \/ NetChange

SpecSendFailure == InitDevice /\ [][NextSendFailure]_vars

\* C26 as stated: a send() that fails never rejects a promise that nobody
\* holds: it is never an unhandled error, in particular not when the send
\* was issued while an inbound message was handled.
C26_SendFailureNeverUnhandled == hist.rejected # "unhandled"

-----------------------------------------------------------------------------
(* SpecHosts: a Device session configured, and the SerialOSC client        *)
(* started, stopped and started again, with hosts given by name or by      *)
(* address.                                                                *)

MaxHostDatagrams == 1   \* datagrams delivered under SpecHosts
MaxHostReceivers == 2   \* receivers created under SpecHosts, the session's included

S_remote == <<49, 48, 46, 48, 46, 48, 46, 53>>   \* "10.0.0.5"

\* The hosts an application may configure.
HostMenu == {S_localhost, S_remote}

InitHosts ==
    /\ \E host \in HostMenu : \E deviceHost \in HostMenu :
          /\ rcv = <<ConfigReceiver(host)>>
          /\ dev = DeviceConfig("grid", host, deviceHost)
    /\ so = SerialOSCInit
    /\ hist = HistInit
    /\ net = "up"
    /\ snd = NoSender
    /\ names = NoNames
    /\ cdc = NoCodec

HostStart ==
    \E host \in HostMenu : \E serialoscHost \in HostMenu :
        /\ so.pc = "idle"
        /\ so.receiver # 0 \/ Len(rcv) < MaxHostReceivers
        /\ Commit(SerialOSCStartOpts(Step, 7001, host, serialoscHost))

HostDeliver ==
    \E r \in 1..Len(rcv) : \E i \in 1..Len(rcv[r].loops) :
        /\ hist.seq < MaxHostDatagrams
        /\ DeliverTo(r, i, IF r = dev.oscReceiver
                           THEN encode(S_sys_port, <<Num(9000)>>)
                           ELSE encode(S_serialosc_add, << >>))

NextHosts ==
    \/ DevStart \/ DevContinue \/ HostStart \/ SoStartList \/ SoStop \/ SoContinue
    \/ HostDeliver \/ Resume

SpecHosts == InitHosts /\ [][NextHosts]_vars

\* The host the transport is to use for a configured host.
Resolved(host) == IF host = S_localhost THEN S_loopback ELSE host

\* The messages the step recorded in h sent to a target.
SentTo(h, to) == SelectSeq(h.sent, LAMBDA m : m.to = to)

-----------------------------------------------------------------------------
(* Properties of the five-step handshake.                                  *)

\* The addresses start() tracks.
TrackedAcks == {S_sys_host, S_sys_port, S_sys_prefix, S_sys_rotation, S_sys_size}

\* C28: start() tracks the five steps /sys/host, /sys/port, /sys/prefix,
\* /sys/rotation and /sys/size.  With only acknowledgments arriving, in any
\* order, each acknowledgment of a step still pending removes exactly that
\* step, /sys/prefix included, and nothing else changes the pending steps;
\* 'initialized' is raised in the step that handles the last pending one,
\* in no other step and so once, not before five datagrams have arrived,
\* and from then on connected = true.
C28_FiveStepsAnyOrder ==
    [][ /\ DevStart =>
              {dev'.initMsgs[i] : i \in 1..Len(dev'.initMsgs)} = TrackedAcks
                 /\ Len(dev'.initMsgs) = 5
        /\ dev.started =>
              /\ dev'.initMsgs =
                    (IF \E a \in TrackedAcks : HandledAny(a)
                     THEN RemoveFirst(dev.initMsgs, hist'.last.address)
                     ELSE dev.initMsgs)
              /\ Initialized' - Initialized =
                    (IF \E a \in TrackedAcks : HandledAny(a) /\ dev.initMsgs = <<a>>
                     THEN 1 ELSE 0)
              /\ Initialized' <= 1
              /\ Initialized' = 1 =>
                    (dev'.connected /\ dev'.initMsgs = << >> /\ hist'.seq >= 5)
              /\ Initialized' = 0 => ~dev'.connected
      ]_vars

\* The /sys/prefix acknowledgment arrived last of the five and the step that
\* handled it raised 'initialized'.
C28_Witness ==
    /\ dev.started /\ hist.seq = 5
    /\ hist.last.ok /\ hist.last.address = S_sys_prefix
    /\ \E i \in 1..Len(hist.events) : hist.events[i].name = "initialized"
    /\ Initialized = 1 /\ dev.connected /\ dev.prefix = Str(S_a)

-----------------------------------------------------------------------------
(* Properties of hot-plug.                                                 *)

RemoveCount(k) == CountOf(hist.count, <<"device:remove", k>>)

\* The <<id, devicePort>> of the announcement or removal handled last.
LastPair(h) == <<Arg(h.last.args, 1), Arg(h.last.args, 3)>>

\* C29 as stated: on a started client that has not been stopped, when a
\* device that was announced and then reported removed is announced again
\* with the same <<id, devicePort>>, the announcement raises 'device:add'
\* once more and the descriptor set contains the device.
C29_ReplugAnnouncedAgain ==
    [][ (/\ FirstRun
         /\ Handled(S_serialosc_device)
         /\ AddCount(LastPair(hist')) >= 1
         /\ hist.last.ok /\ hist.last.address = S_serialosc_remove
         /\ LastPair(hist) = LastPair(hist')
         /\ RemoveCount(LastPair(hist')) >= 1) =>
            /\ hist'.count[<<"device:add", LastPair(hist')>>] = AddCount(LastPair(hist')) + 1
            /\ LastPair(hist') \in Pairs(so'.devices)
      ]_vars

-----------------------------------------------------------------------------
(* Properties of the connected flag.                                       *)

\* C30 as stated: once a session has raised 'initialized' and the last
\* message it handled was a /sys/disconnect, which cleared its connected
\* flag, handling /sys/port, /sys/host, /sys/size, /sys/rotation or
\* /sys/prefix next leaves the flag false.
C30_AckKeepsDisconnected ==
    [][ \A a \in TrackedAcks :
          (/\ dev.started /\ Initialized >= 1
           /\ hist.last.ok /\ hist.last.address = S_sys_disconnect
           /\ ~dev.connected
           /\ HandledAny(a)) =>
              ~dev'.connected
      ]_vars

-----------------------------------------------------------------------------
(* Properties of the advertised listen port.                               *)

\* C31 as stated: every /serialosc/notify and /serialosc/list the client
\* sends while it has a receiver carries the port that receiver is bound
\* on, also after start() was called again on a started client.
C31_AdvertisedPortIsBound ==
    [][ \A i \in 1..Len(SentTo(hist', "daemon")) :
          so'.receiver # 0 =>
              SentTo(hist', "daemon")[i].args[2] = Num(rcv'[so'.receiver].port)
      ]_vars

-----------------------------------------------------------------------------
(* Properties of the generic event.                                        *)

\* The calls of the handler registered as id among the calls of a step.
CallsOf(calls, id) == SelectSeq(calls, LAMBDA c : c.id = id)

\* C32 as stated: for every decoded datagram, whatever its address, each
\* handler registered for 'message' is invoked exactly once, with the
\* address before the arguments, and each handler registered for the
\* address itself is invoked exactly once.
C32_EachHandlerOnce ==
    [][ (rcv[1].isListening /\ Iterated(1) /\ hist'.last.ok) =>
          /\ \A i \in 1..Len(Listeners(rcv[1], S_message)) :
                CallsOf(hist'.calls, Listeners(rcv[1], S_message)[i].id) =
                    <<[id |-> Listeners(rcv[1], S_message)[i].id,
                       args |-> <<Str(hist'.last.address)>> \o hist'.last.args]>>
          /\ \A i \in 1..Len(Listeners(rcv[1], hist'.last.address)) :
                Len(CallsOf(hist'.calls, Listeners(rcv[1], hist'.last.address)[i].id)) = 1
      ]_vars

-----------------------------------------------------------------------------
(* Properties of resubscription.                                           *)

\* C33 as stated: a message at an address of the session's kind under its
\* current prefix raises exactly one event, the one of that address,
\* however many /sys/prefix messages the session has handled before.
C33_OneEventPerMessage ==
    [][ (Iterated(1) /\ hist'.last.ok /\ dev.started /\ dev.prefix.v \in {S_a, S_b}) =>
          \A k \in KindAddresses(dev.type) :
              hist'.last.address = dev.prefix.v \o k[1] =>
                  /\ Len(hist'.events) = 1
                  /\ hist'.events[1].name = k[2]
      ]_vars

-----------------------------------------------------------------------------
(* Properties of the subscriptions at initialization.                      *)

\* The handler each address of a kind is to have.
KindHandlers(type) ==
    IF type = "grid" THEN {<<S_grid_key, "grid_key">>, <<S_tilt, "grid_tilt">>}
    ELSE {<<S_enc_key, "enc_key">>, <<S_enc_delta, "enc_delta">>}

\* Whether receiver R has handler fn registered for the address.
Subscribed(R, address, fn) ==
    \E i \in 1..Len(Listeners(R, address)) : Listeners(R, address)[i].fn = fn

\* C34: in every step in which a session raises 'initialized', it ends
\* subscribed, under the prefix it then has, to the two addresses of its
\* kind, each with the handler of that address.
C34_SubscribedWhenInitialized ==
    [][ (\E i \in 1..Len(hist'.events) :
            hist'.events[i].src = "device" /\ hist'.events[i].name = "initialized") =>
          \A k \in KindHandlers(dev'.type) :
              Subscribed(rcv'[dev'.oscReceiver], TemplateStr(dev'.prefix) \o k[1], k[2])
      ]_vars

\* An arc session has just raised 'initialized' with the prefix "/a" and is
\* subscribed to /a/enc/delta.
C34_Witness ==
    /\ dev.type = "arc" /\ dev.prefix = Str(S_a) /\ dev.connected
    /\ \E i \in 1..Len(hist.events) : hist.events[i].name = "initialized"
    /\ Subscribed(rcv[dev.oscReceiver], S_a \o S_enc_delta, "enc_delta")

-----------------------------------------------------------------------------
(* SpecSender: one OscSender whose send() is called by an application that *)
(* does not always await the call before it makes the next, and close().   *)

MaxSendCalls == 4   \* send() calls made under SpecSender

InitSender ==
    /\ rcv = << >>
    /\ dev = NoDevice
    /\ so = SerialOSCInit
    /\ hist = HistInit
    /\ net = "up"
    /\ snd = NoSender
    /\ names = NoNames
    /\ cdc = NoCodec

\* The sender without the calls that has index i.
WithoutCall(S, i) ==
    [S EXCEPT !.calls = SubSeq(@, 1, i - 1) \o SubSeq(@, i + 1, Len(@))]

\* send(address, args) up to its first await: with no socket it binds one
\* and awaits it, otherwise it encodes and awaits socket.send on this.socket.
SenderSend ==
    /\ snd.started < MaxSendCalls
    /\ snd' = IF snd.socket = 0
              THEN [snd EXCEPT !.nsock = @ + 1, !.open = @ \cup {snd.nsock + 1},
                               !.started = @ + 1,
                               !.calls = Append(@, [pc |-> "bind", sock |-> snd.nsock + 1])]
              ELSE [snd EXCEPT !.started = @ + 1,
                               !.calls = Append(@, [pc |-> "send", sock |-> snd.socket])]
    /\ UNCHANGED <<rcv, dev, so, hist, cdc, net, names>>

\* A call continues after `await Deno.listenDatagram(...)`: it assigns
\* this.socket, encodes, and awaits socket.send on this.socket.
SenderBound ==
    \E i \in 1..Len(snd.calls) :
        /\ snd.calls[i].pc = "bind"
        /\ snd' = [snd EXCEPT !.socket = snd.calls[i].sock,
                              !.calls[i] = [pc |-> "send", sock |-> snd.calls[i].sock]]
        /\ UNCHANGED <<rcv, dev, so, hist, cdc, net, names>>

\* socket.send of a call completes (on a socket closed meanwhile it rejects,
\* and send() throws): the call returns.
SenderSent ==
    \E i \in 1..Len(snd.calls) :
        /\ snd.calls[i].pc = "send"
        /\ snd' = [WithoutCall(snd, i) EXCEPT
                      !.via = IF snd.calls[i].sock \in snd.open
                              THEN snd.calls[i].sock ELSE @]
        /\ UNCHANGED <<rcv, dev, so, hist, cdc, net, names>>

\* OscSender.close()
SenderClose ==
    /\ snd.socket # 0
    /\ snd' = [snd EXCEPT !.open = @ \ {snd.socket}, !.socket = 0]
    /\ UNCHANGED <<rcv, dev, so, hist, cdc, net, names>>

NextSender == SenderSend \/ SenderBound \/ SenderSent \/ SenderClose

SpecSender == InitSender /\ [][NextSender]_vars

\* C35 as stated: an OscSender has at most one bound socket at a time, also
\* when send() calls overlap: every bound socket that is not closed is
\* this.socket, or is about to be assigned to it while this.socket is null,
\* so none is overwritten and left open.
C35_OneOutboundSocket ==
    /\ Cardinality(snd.open) <= 1
    /\ \A s \in snd.open : snd.socket \in {0, s}

-----------------------------------------------------------------------------
(* SpecEventNames: an OscReceiver that listens, is closed and has handlers *)
(* registered, and an application that asks it for its event names.        *)

InitEventNames == Init

\* receiver.eventNames()
EventNames ==
    /\ names' = eventNames(rcv[1], 1)
    /\ UNCHANGED <<rcv, dev, so, hist, cdc, net, snd>>

NextEventNames == Listen \/ Close \/ Register \/ Deliver \/ Resume \/ EventNames

SpecEventNames == InitEventNames /\ [][NextEventNames]_vars

\* C37 as stated: a call of eventNames() returns a list of event names; it
\* does not call itself until the call stack is exhausted.
C37_EventNamesReturns == names.out \in {"none", "list"}

-----------------------------------------------------------------------------
(* Properties of the stopped client.                                       *)

\* C36 as stated: while the client is stopped (stop() has returned, no
\* start() is in progress or has been called again), no step raises 'device:add' or
\* 'device:remove', none sends a message to the daemon, and the descriptor
\* set stays empty, also in the step that handles a datagram that was in
\* flight when stop() was called.
C36_QuietWhenStopped ==
    [][ (so.receiver = 0 /\ so'.receiver = 0 /\ Len(rcv) >= 1 /\ so.pc = "idle") =>
          /\ \A i \in 1..Len(hist'.events) :
                hist'.events[i].name \notin {"device:add", "device:remove"}
          /\ SentTo(hist', "daemon") = << >>
          /\ so'.devices = << >>
      ]_vars

=============================================================================
